---- MODULE Spec2Model ----
(***************************************************************************)
(* Key-binding registry of rts/Game/UI/KeyBindings.cpp (CKeyBindings).     *)
(*                                                                         *)
(* Texts are modelled as sequences of words: a shortcut text is a sequence *)
(* of chords (the parts between ','), a chord is the sequence of its '+'   *)
(* separated words, an action line is the sequence of its blank separated  *)
(* words.  CKeySet, CKeyChain and Action live in KeySet.h / Action.h,      *)
(* which are not part of the sources at hand; they are modelled from the   *)
(* design description (sections 3 and 4.1).                                *)
(***************************************************************************)
EXTENDS Integers, Sequences, FiniteSets, TLC

VARIABLES codeBindings, scanBindings, bindingsCount, hotkeys, buildHotkeyMap,
          loadStack, fakeMetaKey, keyChainTimeout, keysyms, files, last

vars == <<codeBindings, scanBindings, bindingsCount, hotkeys, buildHotkeyMap,
          loadStack, fakeMetaKey, keyChainTimeout, keysyms, files, last>>

(***************************************************************************)
(* Bounds                                                                  *)
(***************************************************************************)
\* largest value the global binding index counter may take in a run
MaxBindings == 3

(***************************************************************************)
(* KeySet / KeyChain                                                       *)
(***************************************************************************)
ModNames == {"Alt", "Ctrl", "Meta", "Shift", "Any"}

\* StringToLower on the words of the model: the words that hold a capital
\* letter are listed, every other word is in lower case already
LowerCased ==
  [w \in {"Alt", "Ctrl", "Meta", "Shift", "Any", "None", "BIND", "KeyLoad",
          "Foo", "A", "Enter", "SC_A"} |->
     CASE w = "Alt"     -> "alt"
       [] w = "Ctrl"    -> "ctrl"
       [] w = "Meta"    -> "meta"
       [] w = "Shift"   -> "shift"
       [] w = "Any"     -> "any"
       [] w = "None"    -> "none"
       [] w = "BIND"    -> "bind"
       [] w = "KeyLoad" -> "keyload"
       [] w = "Foo"     -> "foo"
       [] w = "A"       -> "a"
       [] w = "Enter"   -> "enter"
       [] w = "SC_A"    -> "sc_a"]

StringToLower(s) == IF s \in DOMAIN LowerCased THEN LowerCased[s] ELSE s

\* the modifier a word of a chord names, in whatever case it is written
ModOfWord ==
  [w \in {"alt", "ctrl", "meta", "shift", "any"} |->
     CASE w = "alt"   -> "Alt"
       [] w = "ctrl"  -> "Ctrl"
       [] w = "meta"  -> "Meta"
       [] w = "shift" -> "Shift"
       [] w = "any"   -> "Any"]

\* the names of the key codes the texts of the model use, each with its code
\* (the key of the character ` is written backquote: the character cannot
\* stand in a string)
KeyCodeNames ==
  {<<"backspace", 8>>, <<"tab", 9>>, <<"enter", 13>>, <<"esc", 27>>,
   <<"escape", 27>>, <<"space", 32>>, <<"+", 43>>, <<",", 44>>, <<"-", 45>>,
   <<".", 46>>, <<"0", 48>>, <<"1", 49>>, <<"2", 50>>, <<"3", 51>>,
   <<"4", 52>>, <<"5", 53>>, <<"6", 54>>, <<"7", 55>>, <<"8", 56>>,
   <<"9", 57>>, <<"=", 61>>, <<"[", 91>>, <<"\\", 92>>, <<"]", 93>>,
   <<"^", 94>>, <<"backquote", 96>>, <<"a", 97>>, <<"b", 98>>, <<"c", 99>>,
   <<"d", 100>>, <<"e", 101>>, <<"f", 102>>, <<"g", 103>>, <<"h", 104>>,
   <<"i", 105>>, <<"j", 106>>, <<"k", 107>>, <<"l", 108>>, <<"m", 109>>,
   <<"o", 111>>, <<"p", 112>>, <<"q", 113>>, <<"r", 114>>, <<"s", 115>>,
   <<"t", 116>>, <<"u", 117>>, <<"v", 118>>, <<"w", 119>>, <<"x", 120>>,
   <<"z", 122>>, <<"~", 126>>, <<"delete", 127>>, <<"§", 167>>,
   <<"f1", 1073741882>>, <<"f2", 1073741883>>, <<"f3", 1073741884>>,
   <<"f4", 1073741885>>, <<"f5", 1073741886>>, <<"f6", 1073741887>>,
   <<"f8", 1073741889>>, <<"f10", 1073741891>>, <<"f11", 1073741892>>,
   <<"f12", 1073741893>>, <<"pause", 1073741896>>, <<"insert", 1073741897>>,
   <<"home", 1073741898>>, <<"pageup", 1073741899>>, <<"end", 1073741901>>,
   <<"pagedown", 1073741902>>, <<"right", 1073741903>>,
   <<"left", 1073741904>>, <<"down", 1073741905>>, <<"up", 1073741906>>,
   <<"numpad-", 1073741910>>, <<"numpad+", 1073741911>>,
   <<"ctrl", 1073742048>>, <<"shift", 1073742049>>, <<"alt", 1073742050>>}

\* the names of the scan codes; they carry the sc_ prefix
ScanCodeNames == {<<"sc_a", 4>>, <<"sc_enter", 40>>}

\* name -> (key identifier, keyspace)
\* a name table: the code of each name
NameTable(pairs) ==
  [n \in {p[1] : p \in pairs} |-> (CHOOSE p \in pairs : p[1] = n)[2]]

\* the two key name tables as they are at the start and after a Reset: one
\* table for each keyspace
KeyTable == [KeyCode |-> NameTable(KeyCodeNames), ScanCode |-> NameTable(ScanCodeNames)]

\* the key symbols the user has added, by keyspace: none
NoKeySymbols == [KeyCode |-> NameTable({}), ScanCode |-> NameTable({})]

\* GetCode of the name table of a keyspace: the code of a name, -1 when the
\* table does not hold the name
GetCode(syms, space, name) ==
  IF name \in DOMAIN KeyTable[space] THEN KeyTable[space][name]
  ELSE IF name \in DOMAIN syms[space] THEN syms[space][name]
  ELSE -1

KeySet(key, mod, space) == [key |-> key, mod |-> mod, space |-> space]

AnyMod(ks) == "Any" \in ks.mod

IsKeyCode(ks) == ks.space = "KeyCode"

\* the wildcard variant of the same key: concrete modifiers are dropped
SetAnyBit(ks) == [ks EXCEPT !.mod = {"Any"}]

NoParse == [ok |-> FALSE]

\* CKeySet::Parse of one chord text: modifier words, then the key name, all
\* read in lower case; syms holds the key symbols the user has added to the
\* key name tables.  The name is looked up in the table of the key codes and,
\* when that table does not hold it, in the table of the scan codes.
ParseKeySet(syms, words) ==
  IF words = <<>> THEN NoParse
  ELSE LET n        == Len(words)
           modWords == {StringToLower(words[i]) : i \in 1..(n - 1)}
           name     == StringToLower(words[n])
           space    == IF GetCode(syms, "KeyCode", name) >= 0 THEN "KeyCode"
                       ELSE "ScanCode"
       IN IF \/ ~(modWords \subseteq DOMAIN ModOfWord)
             \/ GetCode(syms, space, name) < 0
          THEN NoParse
          ELSE LET mods == {ModOfWord[w] : w \in modWords}
               IN [ok |-> TRUE,
                   ks |-> KeySet(GetCode(syms, space, name),
                                 IF "Any" \in mods THEN {"Any"} ELSE mods,
                                 space)]

Back(s) == s[Len(s)]

\* a chord of a candidate chain against a chord of the live chain
ChordFit(liveKs, candKs) ==
  /\ liveKs.key = candKs.key
  /\ liveKs.space = candKs.space
  /\ (AnyMod(candKs) \/ candKs.mod = liveKs.mod)

\* CKeyChain::fit: the candidate chain lies at the end of the live chain and
\* the chords it uses were pressed within the timeout of one another, the
\* timeout being the value keyChainTimeout has at the time of the call
fit(live, cand) ==
  /\ Len(live) >= Len(cand)
  /\ LET off == Len(live) - Len(cand)
     IN /\ \A i \in 1..Len(cand) : ChordFit(live[off + i].ks, cand[i])
        /\ \A i \in 1..(Len(cand) - 1) :
             live[off + i + 1].t - live[off + i].t <= keyChainTimeout

(***************************************************************************)
(* Action                                                                  *)
(***************************************************************************)
Action(line) ==
  [command |-> IF line = <<>> THEN "" ELSE Head(line),
   extra   |-> IF line = <<>> THEN <<>> ELSE Tail(line),
   line    |-> line,
   rawline |-> line]

\* CKeyBindings::Init: the commands that are forced to the wildcard keyset
statefulCommands == {"drawinmap", "moveforward", "moveback", "moveright",
                     "moveleft", "moveup", "movedown", "moveslow",
                     "movefast", "movetilt", "movereset", "moverotate"}

(***************************************************************************)
(* KeyMap helpers (std::unordered_map<CKeySet, KeyBindingList>)            *)
(***************************************************************************)
EmptyMap == [k \in {} |-> <<>>]

MapErase(bindings, ks) == [k \in (DOMAIN bindings) \ {ks} |-> bindings[k]]

MapPut(bindings, ks, list) ==
  [k \in (DOMAIN bindings) \cup {ks} |-> IF k = ks THEN list ELSE bindings[k]]

\* the bindings a KeyMap holds under the keysets of ksSet
HeldUnder(bindings, ksSet) ==
  UNION {{bindings[k][i] : i \in 1..Len(bindings[k])} :
           k \in DOMAIN bindings \cap ksSet}

HeldIn(bindings) == HeldUnder(bindings, DOMAIN bindings)

(***************************************************************************)
(* Comparators and list helpers                                            *)
(***************************************************************************)
compareActionByTriggerOrder(a, b) ==
  LET selfAnyMod    == AnyMod(Back(a.keyChain))
      bindingAnyMod == AnyMod(Back(b.keyChain))
  IN IF selfAnyMod = bindingAnyMod
     THEN a.bindingIndex < b.bindingIndex
     ELSE bindingAnyMod

compareActionByBindingOrder(a, b) == a.bindingIndex < b.bindingIndex

EraseAt(s, i) == SubSeq(s, 1, i - 1) \o SubSeq(s, i + 1, Len(s))

\* variant of InplaceMerge used to test C21: the second range is left behind
\* the first
InplaceMerge_Concat(x, y) == x \o y

\* std::inplace_merge of two consecutive ranges: a stable merge, an element of
\* the second range goes first only when it compares less
RECURSIVE InplaceMerge(_, _)
InplaceMerge(x, y) ==
  IF x = <<>> THEN y
  ELSE IF y = <<>> THEN x
  ELSE IF compareActionByTriggerOrder(Head(y), Head(x))
       THEN <<Head(y)>> \o InplaceMerge(x, Tail(y))
       ELSE <<Head(x)>> \o InplaceMerge(Tail(x), y)

\* every arrangement of the elements of a set in a sequence
RECURSIVE Arrangements(_)
Arrangements(s) ==
  IF s = {} THEN {<<>>}
  ELSE UNION {{<<e>> \o rest : rest \in Arrangements(s \ {e})} : e \in s}

\* the sorted arrangements of the elements whose index lies in lo..hi: the
\* elements that do not compare greater than the middle of the range, then
\* the elements that do; elements of one index stand in any order
RECURSIVE SortRange(_, _, _)
SortRange(merged, lo, hi) ==
  IF Cardinality(merged) <= 1 \/ lo >= hi THEN Arrangements(merged)
  ELSE LET mid   == [bindingIndex |-> (lo + hi) \div 2]
           upper == {e \in merged : compareActionByBindingOrder(mid, e.keyBinding)}
       IN {x \o y : x \in SortRange(merged \ upper, lo, mid.bindingIndex),
                    y \in SortRange(upper, mid.bindingIndex + 1, hi)}

\* std::sort with compareActionByBindingOrder.  std::sort is not stable: the
\* result is every arrangement of the elements in which no element stands
\* before one that compares less, a single one when no two indices are equal.
\* merged is the vector as the set of its elements, each with the place it was
\* taken from (the order they have before the sort does not bear on the
\* arrangements).
SortByBindingOrder(merged) ==
  IF merged = {} THEN {<<>>}
  ELSE LET indices == {e.keyBinding.bindingIndex : e \in merged}
           lo == CHOOSE i \in indices : \A j \in indices : i <= j
           hi == CHOOSE i \in indices : \A j \in indices : j <= i
       IN {[i \in 1..Len(x) |-> x[i].keyBinding] : x \in SortRange(merged, lo, hi)}

(***************************************************************************)
(* Resolution                                                              *)
(***************************************************************************)
\* variant of FilterByKeychain used to test C16: only the trigger chord of a
\* binding is held against the live chain
FilterByKeychain_TriggerOnly(in, kc) ==
  SelectSeq(in, LAMBDA action : ChordFit(Back(kc).ks, Back(action.keyChain)))

\* variant of FilterByKeychain used to test C22: every binding of the list is
\* let through
FilterByKeychain_NoFilter(in, kc) == in

FilterByKeychain(in, kc) == SelectSeq(in, LAMBDA action : fit(kc, action.keyChain))

\* the inner loop of MergeActionListsByTrigger: first position in
\* [a, aEndId) of out that holds the line, 0 when there is none
RECURSIVE FindDuplicate(_, _, _, _)
FindDuplicate(out, line, a, aEndId) ==
  IF a >= aEndId THEN 0
  ELSE IF out[a].action.line = line THEN a
  ELSE FindDuplicate(out, line, a + 1, aEndId)

\* the outer loop of MergeActionListsByTrigger over list B, from element i
RECURSIVE MergeScanB(_, _, _, _, _)
MergeScanB(listB, i, out, aBeginId, aEndId) ==
  IF i > Len(listB) THEN [out |-> out, aEndId |-> aEndId]
  ELSE LET aB == listB[i]
           a  == FindDuplicate(out, aB.action.line, aBeginId, aEndId)
       IN IF a = 0
          THEN MergeScanB(listB, i + 1, Append(out, aB), aBeginId, aEndId)
          ELSE IF aB.bindingIndex >= out[a].bindingIndex
          THEN MergeScanB(listB, i + 1, out, aBeginId, aEndId)
          ELSE MergeScanB(listB, i + 1, Append(EraseAt(out, a), aB),
                          aBeginId, aEndId - 1)

\* variant of MergeActionListsByTrigger used to test C25: with an empty list A
\* the result is list B alone
MergeActionListsByTrigger_ForgetOut(keyBindingListA, keyBindingListB, out) ==
  IF keyBindingListA = <<>> THEN keyBindingListB
  ELSE LET aBeginId == Len(out) + 1
           withA    == out \o keyBindingListA
           aEndId   == Len(withA) + 1
       IN IF keyBindingListB = <<>> THEN withA
          ELSE LET r == MergeScanB(keyBindingListB, 1, withA, aBeginId, aEndId)
               IN SubSeq(r.out, 1, aBeginId - 1)
                    \o InplaceMerge(SubSeq(r.out, aBeginId, r.aEndId - 1),
                                    SubSeq(r.out, r.aEndId, Len(r.out)))

\* positions are 1-based: aBeginId is the first element of A in out, aEndId
\* the position behind its last one
MergeActionListsByTrigger(keyBindingListA, keyBindingListB, out) ==
  IF keyBindingListA = <<>> THEN out \o keyBindingListB
  ELSE LET aBeginId == Len(out) + 1
           withA    == out \o keyBindingListA
           aEndId   == Len(withA) + 1
       IN IF keyBindingListB = <<>> THEN withA
          ELSE LET r == MergeScanB(keyBindingListB, 1, withA, aBeginId, aEndId)
               IN SubSeq(r.out, 1, aBeginId - 1)
                    \o InplaceMerge(SubSeq(r.out, aBeginId, r.aEndId - 1),
                                    SubSeq(r.out, r.aEndId, Len(r.out)))

\* variant of GetKeyBindingListKS used to test C14: the wildcard keyset is
\* always the one looked up
GetKeyBindingListKS_ForceAlways(code, scan, ks, forceAny) ==
  IF ks.key < 0 THEN <<>>
  ELSE LET bindings == IF IsKeyCode(ks) THEN code ELSE scan
           toUse    == SetAnyBit(ks)
       IN IF toUse \in DOMAIN bindings THEN bindings[toUse] ELSE <<>>

\* variant of GetKeyBindingListKS used to test C15: the wildcard keyset is
\* never the one looked up
GetKeyBindingListKS_NoForce(code, scan, ks, forceAny) ==
  IF ks.key < 0 THEN <<>>
  ELSE LET bindings == IF IsKeyCode(ks) THEN code ELSE scan
           toUse    == ks
       IN IF toUse \in DOMAIN bindings THEN bindings[toUse] ELSE <<>>

\* GetKeyBindingList(const CKeySet&, bool forceAny)
GetKeyBindingListKS(code, scan, ks, forceAny) ==
  IF ks.key < 0 THEN <<>>
  ELSE LET bindings == IF IsKeyCode(ks) THEN code ELSE scan
           toUse    == IF forceAny THEN SetAnyBit(ks) ELSE ks
       IN IF toUse \in DOMAIN bindings THEN bindings[toUse] ELSE <<>>

\* variant of GetKeyBindingList used to test C2: the wildcard lists are
\* merged before the exact-modifier lists
GetKeyBindingList_AnyFirst(code, scan, kc, sc) ==
  LET kBack  == Back(kc).ks
      sBack  == Back(sc).ks
      kList1 == IF ~AnyMod(kBack)
                THEN FilterByKeychain(GetKeyBindingListKS(code, scan, kBack, FALSE), kc)
                ELSE <<>>
      sList1 == IF ~AnyMod(sBack)
                THEN FilterByKeychain(GetKeyBindingListKS(code, scan, sBack, FALSE), sc)
                ELSE <<>>
      kList2 == FilterByKeychain(GetKeyBindingListKS(code, scan, kBack, TRUE), kc)
      sList2 == FilterByKeychain(GetKeyBindingListKS(code, scan, sBack, TRUE), sc)
      merged == MergeActionListsByTrigger(kList2, sList2, <<>>)
  IN MergeActionListsByTrigger(kList1, sList1, merged)

\* GetKeyBindingList(const CKeyChain& kc, const CKeyChain& sc); kc and sc are
\* live chains, sequences of [ks, t]
GetKeyBindingList(code, scan, kc, sc) ==
  LET kBack  == Back(kc).ks
      sBack  == Back(sc).ks
      kList1 == IF ~AnyMod(kBack)
                THEN FilterByKeychain(GetKeyBindingListKS(code, scan, kBack, FALSE), kc)
                ELSE <<>>
      sList1 == IF ~AnyMod(sBack)
                THEN FilterByKeychain(GetKeyBindingListKS(code, scan, sBack, FALSE), sc)
                ELSE <<>>
      merged == MergeActionListsByTrigger(kList1, sList1, <<>>)
      kList2 == FilterByKeychain(GetKeyBindingListKS(code, scan, kBack, TRUE), kc)
      sList2 == FilterByKeychain(GetKeyBindingListKS(code, scan, sBack, TRUE), sc)
  IN MergeActionListsByTrigger(kList2, sList2, merged)

\* GetKeyBindingList(const CKeyChain& kc): one keyspace, the exact-modifier
\* list and behind it the wildcard list, no merge
GetKeyBindingListKC(code, scan, kc) ==
  IF kc = <<>> THEN <<>>
  ELSE FilterByKeychain(GetKeyBindingListKS(code, scan, Back(kc).ks, FALSE), kc)
         \o (IF ~AnyMod(Back(kc).ks)
             THEN FilterByKeychain(GetKeyBindingListKS(code, scan, Back(kc).ks, TRUE), kc)
             ELSE <<>>)

\* the two loops of GetKeyBindingList() that fill the vector merged.  The
\* order in which a std::unordered_map is iterated is unspecified and changes
\* with the history of the map: the vector is kept as the set of its
\* elements, each with the keyset and the place in the list it is taken from
ElementsOf(bindings) ==
  UNION {{[keyBinding |-> bindings[k][i], from |-> <<k, i>>] : i \in 1..Len(bindings[k])} :
           k \in DOMAIN bindings}

MergedBindings(code, scan) == ElementsOf(code) \cup ElementsOf(scan)

\* variant of GetKeyBindingListAllOutcomes used to test C9: the list comes
\* back in falling order of the index
GetKeyBindingListAllOutcomes_Backwards(code, scan) ==
  {[i \in 1..Len(out) |-> out[Len(out) + 1 - i]] :
     out \in SortByBindingOrder(MergedBindings(code, scan))}

\* GetKeyBindingList() without arguments: every list it can return
GetKeyBindingListAllOutcomes(code, scan) ==
  SortByBindingOrder(MergedBindings(code, scan))

\* GetKeyBindingList() without arguments, where its callers FileSave and
\* BuildHotkeyMap use it: the stores hold no two bindings of one index, and
\* the list is the one the sort can leave
GetKeyBindingListAll(code, scan) ==
  CHOOSE out \in GetKeyBindingListAllOutcomes(code, scan) : TRUE

GetHotkeys(hk, action) == IF action \in DOMAIN hk THEN hk[action] ELSE <<>>

(***************************************************************************)
(* Mutators.  Each returns the registry fields it may change and its       *)
(* return value.                                                           *)
(***************************************************************************)
\* variant of AddActionToKeyMap used to test C4: the binding is appended
\* without looking for its line in the list
AddActionToKeyMap_NoCheck(bindings, keyBinding, count) ==
  LET ks    == Back(keyBinding.keyChain)
      fresh == [keyBinding EXCEPT !.bindingIndex = count + 1]
      old   == IF ks \in DOMAIN bindings THEN bindings[ks] ELSE <<>>
  IN [bindings |-> MapPut(bindings, ks, Append(old, fresh)), count |-> count + 1]

\* variant of AddActionToKeyMap used to test C23: a binding of the list counts
\* as the same only when its whole chain is the same too
AddActionToKeyMap_ChainToo(bindings, keyBinding, count) ==
  LET ks    == Back(keyBinding.keyChain)
      fresh == [keyBinding EXCEPT !.bindingIndex = count + 1]
      old   == IF ks \in DOMAIN bindings THEN bindings[ks] ELSE <<>>
  IN IF \A i \in 1..Len(old) :
          \/ old[i].action.line # keyBinding.action.line
          \/ old[i].keyChain # keyBinding.keyChain
     THEN [bindings |-> MapPut(bindings, ks, Append(old, fresh)), count |-> count + 1]
     ELSE [bindings |-> bindings, count |-> count]

\* variant of AddActionToKeyMap used to test C24: the counter is advanced
\* only by a binding of a key code, so the index of a scan code binding is
\* handed out again
AddActionToKeyMap_ScanNotCounted(bindings, keyBinding, count) ==
  LET ks    == Back(keyBinding.keyChain)
      old   == IF ks \in DOMAIN bindings THEN bindings[ks] ELSE <<>>
      fresh == [keyBinding EXCEPT !.bindingIndex = count + 1]
  IN IF \A i \in 1..Len(old) : old[i].action.line # keyBinding.action.line
     THEN [bindings |-> MapPut(bindings, ks, Append(old, fresh)),
           count    |-> IF IsKeyCode(ks) THEN count + 1 ELSE count]
     ELSE [bindings |-> bindings, count |-> count]

AddActionToKeyMap(bindings, keyBinding, count) ==
  LET ks    == Back(keyBinding.keyChain)
      fresh == [keyBinding EXCEPT !.bindingIndex = count + 1]
  IN IF ks \notin DOMAIN bindings
     THEN [bindings |-> MapPut(bindings, ks, <<fresh>>), count |-> count + 1]
     ELSE LET keyBindingList == bindings[ks]
          IN IF \A i \in 1..Len(keyBindingList) :
                  keyBindingList[i].action.line # keyBinding.action.line
             THEN [bindings |-> MapPut(bindings, ks, Append(keyBindingList, fresh)),
                   count    |-> count + 1]
             ELSE [bindings |-> bindings, count |-> count]

\* ParseKeyChain: every chord of the text has to parse.  A text of the model
\* is the sequence of chords the code arrives at, after its splitting at ','
\* and its re-reading of a ',' that names the key: the key ',' is a word of
\* a chord
ParseKeyChain(syms, keystr) ==
  IF keystr = <<>> \/ \E i \in 1..Len(keystr) : ~ParseKeySet(syms, keystr[i]).ok
  THEN [ok |-> FALSE, kc |-> <<>>]
  ELSE [ok |-> TRUE, kc |-> [i \in 1..Len(keystr) |-> ParseKeySet(syms, keystr[i]).ks]]

\* variant of Bind used to test C7: the index is taken before the action and
\* the shortcut are looked at
Bind_CountFirst(syms, code, scan, count, keystr, line) ==
  LET action  == Action(line)
      parsed  == ParseKeyChain(syms, keystr)
      failure == [ret |-> FALSE, code |-> code, scan |-> scan, count |-> count + 1]
  IN IF action.command = "" THEN failure
     ELSE IF ~parsed.ok \/ parsed.kc = <<>> THEN failure
     ELSE LET n  == Len(parsed.kc)
              ks == IF action.command \in statefulCommands
                    THEN SetAnyBit(parsed.kc[n])
                    ELSE parsed.kc[n]
              keyBinding == [action       |-> action,
                             keyChain     |-> [parsed.kc EXCEPT ![n] = ks],
                             boundWith    |-> keystr,
                             bindingIndex |-> 0]
          IN IF IsKeyCode(ks)
             THEN LET r == AddActionToKeyMap(code, keyBinding, count)
                  IN [ret |-> TRUE, code |-> r.bindings, scan |-> scan, count |-> r.count]
             ELSE LET r == AddActionToKeyMap(scan, keyBinding, count)
                  IN [ret |-> TRUE, code |-> code, scan |-> r.bindings, count |-> r.count]

\* variant of Bind used to test C8: a stateful command keeps the modifiers of
\* its shortcut
Bind_NoForce(syms, code, scan, count, keystr, line) ==
  LET action  == Action(line)
      parsed  == ParseKeyChain(syms, keystr)
      failure == [ret |-> FALSE, code |-> code, scan |-> scan, count |-> count]
  IN IF action.command = "" THEN failure
     ELSE IF ~parsed.ok \/ parsed.kc = <<>> THEN failure
     ELSE LET ks == Back(parsed.kc)
              keyBinding == [action       |-> action,
                             keyChain     |-> parsed.kc,
                             boundWith    |-> keystr,
                             bindingIndex |-> 0]
          IN IF IsKeyCode(ks)
             THEN LET r == AddActionToKeyMap(code, keyBinding, count)
                  IN [ret |-> TRUE, code |-> r.bindings, scan |-> scan, count |-> r.count]
             ELSE LET r == AddActionToKeyMap(scan, keyBinding, count)
                  IN [ret |-> TRUE, code |-> code, scan |-> r.bindings, count |-> r.count]

Bind(syms, code, scan, count, keystr, line) ==
  LET action  == Action(line)
      parsed  == ParseKeyChain(syms, keystr)
      failure == [ret |-> FALSE, code |-> code, scan |-> scan, count |-> count]
  IN IF action.command = "" THEN failure
     ELSE IF ~parsed.ok \/ parsed.kc = <<>> THEN failure
     ELSE LET n  == Len(parsed.kc)
              ks == IF action.command \in statefulCommands
                    THEN SetAnyBit(parsed.kc[n])
                    ELSE parsed.kc[n]
              keyBinding == [action       |-> action,
                             keyChain     |-> [parsed.kc EXCEPT ![n] = ks],
                             boundWith    |-> keystr,
                             bindingIndex |-> 0]
          IN IF IsKeyCode(ks)
             THEN LET r == AddActionToKeyMap(code, keyBinding, count)
                  IN [ret |-> TRUE, code |-> r.bindings, scan |-> scan, count |-> r.count]
             ELSE LET r == AddActionToKeyMap(scan, keyBinding, count)
                  IN [ret |-> TRUE, code |-> code, scan |-> r.bindings, count |-> r.count]

\* command is the text given to unbind / unbindaction; a binding matches when
\* its command word is the whole text
RemoveCommandFromList(keyBindingList, command) ==
  LET kept == SelectSeq(keyBindingList, LAMBDA b : <<b.action.command>> # command)
  IN [list |-> kept, success |-> Len(kept) # Len(keyBindingList)]

\* CKeySet::Parse of a whole shortcut text: a text of several chords is no key
ParseWholeAsKeySet(syms, keystr) ==
  IF Len(keystr) = 1 THEN ParseKeySet(syms, keystr[1]) ELSE NoParse

\* variant of UnBind used to test C17: the command is removed from every list
\* of the key-code store
UnBind_AllKeysets(syms, code, scan, keystr, command) ==
  LET stays == {k \in DOMAIN code :
                  RemoveCommandFromList(code[k], command).list # <<>>}
  IN [ret  |-> \E k \in DOMAIN code : RemoveCommandFromList(code[k], command).success,
      code |-> [k \in stays |-> RemoveCommandFromList(code[k], command).list],
      scan |-> scan]

\* variant of UnBind used to test C26: the list is kept when it gets empty
UnBind_KeepEmpty(syms, code, scan, keystr, command) ==
  LET p       == ParseWholeAsKeySet(syms, keystr)
      failure == [ret |-> FALSE, code |-> code, scan |-> scan]
  IN IF ~p.ok THEN failure
     ELSE LET bindings == IF IsKeyCode(p.ks) THEN code ELSE scan
          IN IF p.ks \notin DOMAIN bindings THEN failure
             ELSE LET r   == RemoveCommandFromList(bindings[p.ks], command)
                      new == MapPut(bindings, p.ks, r.list)
                  IN [ret  |-> r.success,
                      code |-> IF IsKeyCode(p.ks) THEN new ELSE code,
                      scan |-> IF IsKeyCode(p.ks) THEN scan ELSE new]

UnBind(syms, code, scan, keystr, command) ==
  LET p       == ParseWholeAsKeySet(syms, keystr)
      failure == [ret |-> FALSE, code |-> code, scan |-> scan]
  IN IF ~p.ok THEN failure
     ELSE LET bindings == IF IsKeyCode(p.ks) THEN code ELSE scan
          IN IF p.ks \notin DOMAIN bindings THEN failure
             ELSE LET r   == RemoveCommandFromList(bindings[p.ks], command)
                      new == IF r.list = <<>> THEN MapErase(bindings, p.ks)
                             ELSE MapPut(bindings, p.ks, r.list)
                  IN [ret  |-> r.success,
                      code |-> IF IsKeyCode(p.ks) THEN new ELSE code,
                      scan |-> IF IsKeyCode(p.ks) THEN scan ELSE new]

\* variant of UnBindKeyset used to test C18: the list of the wildcard keyset
\* of the key goes as well
UnBindKeyset_WithWildcard(syms, code, scan, keystr) ==
  LET p       == ParseWholeAsKeySet(syms, keystr)
      failure == [ret |-> FALSE, code |-> code, scan |-> scan]
  IN IF ~p.ok THEN failure
     ELSE LET bindings == IF IsKeyCode(p.ks) THEN code ELSE scan
          IN IF p.ks \notin DOMAIN bindings THEN failure
             ELSE [ret  |-> TRUE,
                   code |-> IF IsKeyCode(p.ks)
                            THEN MapErase(MapErase(code, p.ks), SetAnyBit(p.ks))
                            ELSE code,
                   scan |-> IF IsKeyCode(p.ks) THEN scan
                            ELSE MapErase(MapErase(scan, p.ks), SetAnyBit(p.ks))]

UnBindKeyset(syms, code, scan, keystr) ==
  LET p       == ParseWholeAsKeySet(syms, keystr)
      failure == [ret |-> FALSE, code |-> code, scan |-> scan]
  IN IF ~p.ok THEN failure
     ELSE LET bindings == IF IsKeyCode(p.ks) THEN code ELSE scan
          IN IF p.ks \notin DOMAIN bindings THEN failure
             ELSE [ret  |-> TRUE,
                   code |-> IF IsKeyCode(p.ks) THEN MapErase(code, p.ks) ELSE code,
                   scan |-> IF IsKeyCode(p.ks) THEN scan ELSE MapErase(scan, p.ks)]

RemoveActionFromKeyMap(command, bindings) ==
  LET stays == {k \in DOMAIN bindings :
                  RemoveCommandFromList(bindings[k], command).list # <<>>}
  IN [bindings |-> [k \in stays |-> RemoveCommandFromList(bindings[k], command).list],
      success  |-> \E k \in DOMAIN bindings :
                      RemoveCommandFromList(bindings[k], command).success]

\* a || b: the scan-code map is visited only when the key-code map held nothing
UnBindAction(code, scan, command) ==
  LET c == RemoveActionFromKeyMap(command, code)
  IN IF c.success
     THEN [ret |-> TRUE, code |-> c.bindings, scan |-> scan]
     ELSE LET s == RemoveActionFromKeyMap(command, scan)
          IN [ret |-> s.success, code |-> c.bindings, scan |-> s.bindings]

TextNone  == <<<<"none">>>>

TextSpace == <<<<"space">>>>

\* SetFakeMetaKey: "none" in any case takes the key away; a text that is no
\* key, or a scan code, leaves the key as it is
SetFakeMetaKey(syms, fakeMeta, keystr) ==
  IF Len(keystr) = 1 /\ Len(keystr[1]) = 1 /\ StringToLower(keystr[1][1]) = "none"
  THEN [ret |-> TRUE, fakeMetaKey |-> -1]
  ELSE LET ks == ParseWholeAsKeySet(syms, keystr)
       IN IF ~ks.ok THEN [ret |-> FALSE, fakeMetaKey |-> fakeMeta]
          ELSE IF ~IsKeyCode(ks.ks) THEN [ret |-> FALSE, fakeMetaKey |-> fakeMeta]
          ELSE [ret |-> TRUE, fakeMetaKey |-> ks.ks.key]

\* AddKeySymbol: the code text has to be a key, and the key name table of the
\* keyspace of that key has to take the name, which it holds in lower case
\* (it does not take a name it holds already)
AddKeySymbol(syms, keysym, code) ==
  LET ks   == ParseWholeAsKeySet(syms, code)
      name == StringToLower(keysym)
  IN IF ~ks.ok THEN [ret |-> FALSE, keysyms |-> syms]
     ELSE IF GetCode(syms, ks.ks.space, name) >= 0
     THEN [ret |-> FALSE, keysyms |-> syms]
     ELSE [ret     |-> TRUE,
           keysyms |-> [syms EXCEPT ![ks.ks.space] = MapPut(@, name, ks.ks.key)]]

(***************************************************************************)
(* Hotkey index                                                            *)
(***************************************************************************)
\* variant of HotkeyKey used to test C10: the extra text is left out
HotkeyKey_CommandOnly(action) == <<action.command>>

\* command, followed by the extra text when there is one
HotkeyKey(action) ==
  IF action.extra = <<>> THEN <<action.command>>
  ELSE <<action.command>> \o action.extra

\* the loop of BuildHotkeyMap over the elements lo..hi of the list, in their
\* order (the range is halved: the evaluation stays shallow)
RECURSIVE BuildHotkeyLoop(_, _, _, _)
BuildHotkeyLoop(list, lo, hi, hk) ==
  IF lo > hi THEN hk
  ELSE IF lo = hi
  THEN LET key == HotkeyKey(list[lo].action)
           hl  == IF key \in DOMAIN hk THEN hk[key] ELSE <<>>
       IN MapPut(hk, key, Append(hl, list[lo].boundWith))
  ELSE CHOOSE v \in
         {BuildHotkeyLoop(list, ((lo + hi) \div 2) + 1, hi, first) :
            first \in {BuildHotkeyLoop(list, lo, (lo + hi) \div 2, hk)}} : TRUE

BuildHotkeyMap(code, scan) ==
  CHOOSE v \in
    {BuildHotkeyLoop(list, 1, Len(list), EmptyMap) :
       list \in {GetKeyBindingListAll(code, scan)}} : TRUE

(***************************************************************************)
(* ExecuteCommand, Load, LoadDefaults.  reg is the registry: [code, scan,  *)
(* count, hotkeys, build, stack, files, log]; words is Tokenize(line, 2):  *)
(* the command word, the first argument, the rest of the line.  reg.log is *)
(* not program state: it is the record of what one top-level call did      *)
(* (loads entered, files pushed, loads left, defaults entered and left,    *)
(* rebuilds), each entry with the load stack, the rebuild flag and the     *)
(* stores of that moment.                                                  *)
(***************************************************************************)
\* In what follows CHOOSE v \in {F(x) : x \in {e}} : TRUE stands for F(e): e
\* is computed once and handed on as a value.

Event(kind, file, ret, reg) ==
  [kind |-> kind, file |-> file, ret |-> ret, stack |-> reg.stack,
   build |-> reg.build, code |-> reg.code, scan |-> reg.scan]

Logged(reg, kind, file, ret) ==
  [reg EXCEPT !.log = Append(@, Event(kind, file, ret, reg))]

\* variant of ExecFinish used to test C11: the rebuild does not look at the
\* flag
ExecFinish_Always(reg) ==
  [reg     |-> Logged([reg EXCEPT !.hotkeys = BuildHotkeyMap(reg.code, reg.scan)],
                      "build", "", TRUE),
   ret     |-> FALSE,
   inner   |-> TRUE,
   rebuilt |-> TRUE]

\* return false before the end of ExecuteCommand is reached
ExecReturnEarly(reg) ==
  [reg |-> reg, ret |-> FALSE, inner |-> FALSE, rebuilt |-> FALSE]

\* the end of ExecuteCommand: the rebuild, and return false
ExecFinish(reg) ==
  [reg     |-> IF reg.build
               THEN Logged([reg EXCEPT !.hotkeys = BuildHotkeyMap(reg.code, reg.scan)],
                           "build", "", TRUE)
               ELSE reg,
   ret     |-> FALSE,
   inner   |-> TRUE,
   rebuilt |-> reg.build]

\* Bind("enter", "chat")
TextEnterChat == << <<<<"enter">>>>, <<"chat">> >>

\* variant of ExecUnbindAll used to test C6: the counter is not reset
ExecUnbindAll_NoReset(reg) ==
  CHOOSE v \in
    {[reg EXCEPT !.code = r.code, !.scan = r.scan, !.count = r.count,
                 !.keysyms = NoKeySymbols] :
       r \in {Bind(NoKeySymbols, EmptyMap, EmptyMap, reg.count,
                   TextEnterChat[1], TextEnterChat[2])}} : TRUE

\* variant of ExecUnbindAll used to test C27: the counter is reset and the
\* maps are not cleared
ExecUnbindAll_KeepStores(reg) ==
  CHOOSE v \in
    {[reg EXCEPT !.code = r.code, !.scan = r.scan, !.count = r.count,
                 !.keysyms = NoKeySymbols] :
       r \in {Bind(NoKeySymbols, reg.code, reg.scan, 0,
                   TextEnterChat[1], TextEnterChat[2])}} : TRUE

\* the unbindall branch: both maps cleared, the key name tables put back as
\* they were at the start (the key symbols of the user go), the counter reset,
\* enter -> chat
ExecUnbindAll(reg) ==
  CHOOSE v \in
    {[reg EXCEPT !.code = r.code, !.scan = r.scan, !.count = r.count,
                 !.keysyms = NoKeySymbols] :
       r \in {Bind(NoKeySymbols, EmptyMap, EmptyMap, 0,
                   TextEnterChat[1], TextEnterChat[2])}} : TRUE

DEFAULT_FILENAME == "uikeys.txt"

\* the table of default bindings: a row is a shortcut text and an action line
defaultBindings ==
  <<
     << <<<<"esc">>>>, <<"quitmessage">> >>,
     << <<<<"Shift", "esc">>>>, <<"quitmenu">> >>,
     << <<<<"Ctrl", "Shift", "esc">>>>, <<"quitforce">> >>,
     << <<<<"Alt", "Shift", "esc">>>>, <<"reloadforce">> >>,
     << <<<<"Any", "pause">>>>, <<"pause">> >>,
     << <<<<"c">>>>, <<"controlunit">> >>,
     << <<<<"Any", "h">>>>, <<"sharedialog">> >>,
     << <<<<"Any", "i">>>>, <<"gameinfo">> >>,
     << <<<<"Any", "j">>>>, <<"mouse2">> >>,
     << <<<<"backspace">>>>, <<"mousestate">> >>,
     << <<<<"Shift", "backspace">>>>, <<"togglecammode">> >>,
     << <<<<"Ctrl", "backspace">>>>, <<"togglecammode">> >>,
     << <<<<"Any", "tab">>>>, <<"toggleoverview">> >>,
     << <<<<"Any", "enter">>>>, <<"chat">> >>,
     << <<<<"Alt", "ctrl", "a">>, <<"Alt", "ctrl", "a">>>>, <<"chatswitchally">> >>,
     << <<<<"Alt", "ctrl", "s">>, <<"Alt", "ctrl", "s">>>>, <<"chatswitchspec">> >>,
     << <<<<"Any", "tab">>>>, <<"edit_complete">> >>,
     << <<<<"Any", "backspace">>>>, <<"edit_backspace">> >>,
     << <<<<"Any", "delete">>>>, <<"edit_delete">> >>,
     << <<<<"Any", "home">>>>, <<"edit_home">> >>,
     << <<<<"Alt", "left">>>>, <<"edit_home">> >>,
     << <<<<"Any", "end">>>>, <<"edit_end">> >>,
     << <<<<"Alt", "right">>>>, <<"edit_end">> >>,
     << <<<<"Any", "up">>>>, <<"edit_prev_line">> >>,
     << <<<<"Any", "down">>>>, <<"edit_next_line">> >>,
     << <<<<"Any", "left">>>>, <<"edit_prev_char">> >>,
     << <<<<"Any", "right">>>>, <<"edit_next_char">> >>,
     << <<<<"Ctrl", "left">>>>, <<"edit_prev_word">> >>,
     << <<<<"Ctrl", "right">>>>, <<"edit_next_word">> >>,
     << <<<<"Any", "enter">>>>, <<"edit_return">> >>,
     << <<<<"Any", "escape">>>>, <<"edit_escape">> >>,
     << <<<<"Ctrl", "v">>>>, <<"pastetext">> >>,
     << <<<<"Any", "home">>>>, <<"increaseViewRadius">> >>,
     << <<<<"Any", "end">>>>, <<"decreaseViewRadius">> >>,
     << <<<<"Alt", "insert">>>>, <<"speedup">> >>,
     << <<<<"Alt", "delete">>>>, <<"slowdown">> >>,
     << <<<<"Alt", "=">>>>, <<"speedup">> >>,
     << <<<<"Alt", "+">>>>, <<"speedup">> >>,
     << <<<<"Alt", "-">>>>, <<"slowdown">> >>,
     << <<<<"Alt", "numpad+">>>>, <<"speedup">> >>,
     << <<<<"Alt", "numpad-">>>>, <<"slowdown">> >>,
     << <<<<",">>>>, <<"prevmenu">> >>,
     << <<<<".">>>>, <<"nextmenu">> >>,
     << <<<<"Shift", ",">>>>, <<"decguiopacity">> >>,
     << <<<<"Shift", ".">>>>, <<"incguiopacity">> >>,
     << <<<<"1">>>>, <<"specteam", "0">> >>,
     << <<<<"2">>>>, <<"specteam", "1">> >>,
     << <<<<"3">>>>, <<"specteam", "2">> >>,
     << <<<<"4">>>>, <<"specteam", "3">> >>,
     << <<<<"5">>>>, <<"specteam", "4">> >>,
     << <<<<"6">>>>, <<"specteam", "5">> >>,
     << <<<<"7">>>>, <<"specteam", "6">> >>,
     << <<<<"8">>>>, <<"specteam", "7">> >>,
     << <<<<"9">>>>, <<"specteam", "8">> >>,
     << <<<<"0">>>>, <<"specteam", "9">> >>,
     << <<<<"Ctrl", "1">>>>, <<"specteam", "10">> >>,
     << <<<<"Ctrl", "2">>>>, <<"specteam", "11">> >>,
     << <<<<"Ctrl", "3">>>>, <<"specteam", "12">> >>,
     << <<<<"Ctrl", "4">>>>, <<"specteam", "13">> >>,
     << <<<<"Ctrl", "5">>>>, <<"specteam", "14">> >>,
     << <<<<"Ctrl", "6">>>>, <<"specteam", "15">> >>,
     << <<<<"Ctrl", "7">>>>, <<"specteam", "16">> >>,
     << <<<<"Ctrl", "8">>>>, <<"specteam", "17">> >>,
     << <<<<"Ctrl", "9">>>>, <<"specteam", "18">> >>,
     << <<<<"Ctrl", "0">>>>, <<"specteam", "19">> >>,
     << <<<<"Any", "0">>>>, <<"group0">> >>,
     << <<<<"Any", "1">>>>, <<"group1">> >>,
     << <<<<"Any", "2">>>>, <<"group2">> >>,
     << <<<<"Any", "3">>>>, <<"group3">> >>,
     << <<<<"Any", "4">>>>, <<"group4">> >>,
     << <<<<"Any", "5">>>>, <<"group5">> >>,
     << <<<<"Any", "6">>>>, <<"group6">> >>,
     << <<<<"Any", "7">>>>, <<"group7">> >>,
     << <<<<"Any", "8">>>>, <<"group8">> >>,
     << <<<<"Any", "9">>>>, <<"group9">> >>,
     << <<<<"[">>>>, <<"buildfacing", "inc">> >>,
     << <<<<"Shift", "[">>>>, <<"buildfacing", "inc">> >>,
     << <<<<"]">>>>, <<"buildfacing", "dec">> >>,
     << <<<<"Shift", "]">>>>, <<"buildfacing", "dec">> >>,
     << <<<<"Any", "z">>>>, <<"buildspacing", "inc">> >>,
     << <<<<"Any", "x">>>>, <<"buildspacing", "dec">> >>,
     << <<<<"a">>>>, <<"attack">> >>,
     << <<<<"Shift", "a">>>>, <<"attack">> >>,
     << <<<<"Alt", "a">>>>, <<"areaattack">> >>,
     << <<<<"Alt", "Shift", "a">>>>, <<"areaattack">> >>,
     << <<<<"Alt", "b">>>>, <<"debug">> >>,
     << <<<<"Alt", "v">>>>, <<"debugcolvol">> >>,
     << <<<<"Alt", "p">>>>, <<"debugpath">> >>,
     << <<<<"d">>>>, <<"manualfire">> >>,
     << <<<<"Shift", "d">>>>, <<"manualfire">> >>,
     << <<<<"Ctrl", "d">>>>, <<"selfd">> >>,
     << <<<<"Ctrl", "Shift", "d">>>>, <<"selfd", "queued">> >>,
     << <<<<"e">>>>, <<"reclaim">> >>,
     << <<<<"Shift", "e">>>>, <<"reclaim">> >>,
     << <<<<"f">>>>, <<"fight">> >>,
     << <<<<"Shift", "f">>>>, <<"fight">> >>,
     << <<<<"Alt", "f">>>>, <<"forcestart">> >>,
     << <<<<"g">>>>, <<"guard">> >>,
     << <<<<"Shift", "g">>>>, <<"guard">> >>,
     << <<<<"k">>>>, <<"cloak">> >>,
     << <<<<"Shift", "k">>>>, <<"cloak">> >>,
     << <<<<"l">>>>, <<"loadunits">> >>,
     << <<<<"Shift", "l">>>>, <<"loadunits">> >>,
     << <<<<"m">>>>, <<"move">> >>,
     << <<<<"Shift", "m">>>>, <<"move">> >>,
     << <<<<"Alt", "o">>>>, <<"singlestep">> >>,
     << <<<<"p">>>>, <<"patrol">> >>,
     << <<<<"Shift", "p">>>>, <<"patrol">> >>,
     << <<<<"q">>>>, <<"groupselect">> >>,
     << <<<<"q">>>>, <<"groupadd">> >>,
     << <<<<"Ctrl", "q">>>>, <<"aiselect">> >>,
     << <<<<"Shift", "q">>>>, <<"groupclear">> >>,
     << <<<<"r">>>>, <<"repair">> >>,
     << <<<<"Shift", "r">>>>, <<"repair">> >>,
     << <<<<"s">>>>, <<"stop">> >>,
     << <<<<"Shift", "s">>>>, <<"stop">> >>,
     << <<<<"u">>>>, <<"unloadunits">> >>,
     << <<<<"Shift", "u">>>>, <<"unloadunits">> >>,
     << <<<<"w">>>>, <<"wait">> >>,
     << <<<<"Shift", "w">>>>, <<"wait", "queued">> >>,
     << <<<<"x">>>>, <<"onoff">> >>,
     << <<<<"Shift", "x">>>>, <<"onoff">> >>,
     << <<<<"Ctrl", "t">>>>, <<"trackmode">> >>,
     << <<<<"Any", "t">>>>, <<"track">> >>,
     << <<<<"Ctrl", "f1">>>>, <<"viewfps">> >>,
     << <<<<"Ctrl", "f2">>>>, <<"viewta">> >>,
     << <<<<"Ctrl", "f3">>>>, <<"viewspring">> >>,
     << <<<<"Ctrl", "f4">>>>, <<"viewrot">> >>,
     << <<<<"Ctrl", "f5">>>>, <<"viewfree">> >>,
     << <<<<"Any", "f1">>>>, <<"ShowElevation">> >>,
     << <<<<"Any", "f2">>>>, <<"ShowPathTraversability">> >>,
     << <<<<"Any", "f3">>>>, <<"LastMsgPos">> >>,
     << <<<<"Any", "f4">>>>, <<"ShowMetalMap">> >>,
     << <<<<"Any", "f5">>>>, <<"HideInterface">> >>,
     << <<<<"Any", "f6">>>>, <<"MuteSound">> >>,
     << <<<<"Any", "l">>>>, <<"togglelos">> >>,
     << <<<<"Ctrl", "Shift", "f8">>>>, <<"savegame">> >>,
     << <<<<"Ctrl", "Shift", "f10">>>>, <<"createvideo">> >>,
     << <<<<"Any", "f11">>>>, <<"screenshot">> >>,
     << <<<<"Any", "f12">>>>, <<"screenshot">> >>,
     << <<<<"Alt", "enter">>>>, <<"fullscreen">> >>,
     << <<<<"Any", "backquote">>, <<"Any", "backquote">>>>, <<"drawlabel">> >>,
     << <<<<"Any", "\\">>, <<"Any", "\\">>>>, <<"drawlabel">> >>,
     << <<<<"Any", "~">>, <<"Any", "~">>>>, <<"drawlabel">> >>,
     << <<<<"Any", "§">>, <<"Any", "§">>>>, <<"drawlabel">> >>,
     << <<<<"Any", "^">>, <<"Any", "^">>>>, <<"drawlabel">> >>,
     << <<<<"Any", "backquote">>>>, <<"drawinmap">> >>,
     << <<<<"Any", "\\">>>>, <<"drawinmap">> >>,
     << <<<<"Any", "~">>>>, <<"drawinmap">> >>,
     << <<<<"Any", "§">>>>, <<"drawinmap">> >>,
     << <<<<"Any", "^">>>>, <<"drawinmap">> >>,
     << <<<<"Any", "up">>>>, <<"moveforward">> >>,
     << <<<<"Any", "down">>>>, <<"moveback">> >>,
     << <<<<"Any", "right">>>>, <<"moveright">> >>,
     << <<<<"Any", "left">>>>, <<"moveleft">> >>,
     << <<<<"Any", "pageup">>>>, <<"moveup">> >>,
     << <<<<"Any", "pagedown">>>>, <<"movedown">> >>,
     << <<<<"Any", "ctrl">>>>, <<"moveslow">> >>,
     << <<<<"Any", "shift">>>>, <<"movefast">> >>,
     << <<<<"Any", "ctrl">>>>, <<"movetilt">> >>,
     << <<<<"Any", "alt">>>>, <<"movereset">> >>,
     << <<<<"Any", "alt">>>>, <<"moverotate">> >>,
     << <<<<"Ctrl", "a">>>>, <<"select", "AllMap++_ClearSelection_SelectAll+">> >>,
     << <<<<"Ctrl", "b">>>>, <<"select", "AllMap+_Builder_Idle+_ClearSelection_SelectOne+">> >>,
     << <<<<"Ctrl", "c">>>>, <<"select", "AllMap+_ManualFireUnit+_ClearSelection_SelectOne+">> >>,
     << <<<<"Ctrl", "r">>>>, <<"select", "AllMap+_Radar+_ClearSelection_SelectAll+">> >>,
     << <<<<"Ctrl", "v">>>>, <<"select", "AllMap+_Not_Builder_Not_Commander_InPrevSel_Not_InHotkeyGroup+_SelectAll+">> >>,
     << <<<<"Ctrl", "w">>>>, <<"select", "AllMap+_Not_Aircraft_Weapons+_ClearSelection_SelectAll+">> >>,
     << <<<<"Ctrl", "x">>>>, <<"select", "AllMap+_InPrevSel_Not_InHotkeyGroup+_SelectAll+">> >>,
     << <<<<"Ctrl", "z">>>>, <<"select", "AllMap+_InPrevSel+_ClearSelection_SelectAll+">> >>
  >>

\* the loop of LoadDefaults over the rows lo..hi of the table, in their order
\* (the range is halved: the evaluation stays shallow)
RECURSIVE LoadDefaultsLoop(_, _, _)
LoadDefaultsLoop(reg, lo, hi) ==
  IF lo > hi THEN reg
  ELSE IF lo = hi
  THEN CHOOSE v \in
         {[reg EXCEPT !.code = r.code, !.scan = r.scan, !.count = r.count] :
            r \in {Bind(reg.keysyms, reg.code, reg.scan, reg.count,
                        defaultBindings[lo][1], defaultBindings[lo][2])}} : TRUE
  ELSE CHOOSE v \in
         {LoadDefaultsLoop(first, ((lo + hi) \div 2) + 1, hi) :
            first \in {LoadDefaultsLoop(reg, lo, (lo + hi) \div 2)}} : TRUE

\* the rebuild flag is put aside and cleared, the fake meta key is set to
\* space, the rows of the table are bound, the flag is put back
LoadDefaults(reg) ==
  LET tmpBuildHotkeyMap == reg.build
      entered == Logged(reg, "defaults", "", FALSE)
      space   == SetFakeMetaKey(reg.keysyms, reg.fakeMetaKey, TextSpace)
  IN CHOOSE v \in
       {Logged([r EXCEPT !.build = tmpBuildHotkeyMap], "defaultsReturn", "", TRUE) :
          r \in {LoadDefaultsLoop([entered EXCEPT !.build = FALSE,
                                                  !.fakeMetaKey = space.fakeMetaKey],
                                  1, Len(defaultBindings))}} : TRUE

\* the lines of a file; a file that does not exist reads as no line
FileLines(disk, filename) ==
  IF filename \in DOMAIN disk THEN disk[filename] ELSE <<>>

\* variant of OnStack used to test C19: only the file being read is looked
\* at, and a fourth nested load is refused
OnStack_TopOnly(stack, filename) ==
  stack # <<>> /\ (stack[Len(stack)] = filename \/ Len(stack) >= 3)

\* std::find(loadStack.begin(), loadStack.end(), filename) != loadStack.end()
OnStack(stack, filename) == \E i \in 1..Len(stack) : stack[i] = filename

RECURSIVE ExecuteCommand(_, _)
RECURSIVE Load(_, _)
RECURSIVE LoadLines(_, _, _, _)

\* while (!parser.Eof()) ExecuteCommand(parser.GetCleanLine()), for the lines
\* lo..hi of the file in their order (the range is halved: the evaluation
\* stays shallow)
LoadLines(reg, lines, lo, hi) ==
  IF lo > hi THEN reg
  ELSE IF lo = hi THEN ExecuteCommand(reg, lines[lo]).reg
  ELSE CHOOSE v \in
         {LoadLines(first, lines, ((lo + hi) \div 2) + 1, hi) :
            first \in {LoadLines(reg, lines, lo, (lo + hi) \div 2)}} : TRUE

\* variant of Load used to test C29: the rebuild flag is not put back
Load_FlagLeftOff(reg, filename) ==
  LET entered == Logged(reg, "load", filename, FALSE)
  IN IF OnStack(reg.stack, filename)
     THEN [reg |-> Logged(entered, "return", filename, FALSE), ret |-> FALSE]
     ELSE LET pushed == Logged([entered EXCEPT !.build = FALSE,
                                               !.stack = Append(@, filename)],
                               "push", filename, FALSE)
              Popped(read) == [read EXCEPT !.stack = SubSeq(@, 1, Len(@) - 1)]
          IN CHOOSE v \in
               {[reg |-> Logged(popped, "return", filename, TRUE), ret |-> TRUE] :
                  popped \in {Popped(read) :
                    read \in {LoadLines(start, FileLines(reg.files, filename), 1,
                                        Len(FileLines(reg.files, filename))) :
                      start \in {pushed}}}} : TRUE

Load(reg, filename) ==
  LET entered == Logged(reg, "load", filename, FALSE)
  IN IF OnStack(reg.stack, filename)
     THEN [reg |-> Logged(entered, "return", filename, FALSE), ret |-> FALSE]
     ELSE LET tmpBuildHotkeyMap == reg.build
              pushed == Logged([entered EXCEPT !.build = FALSE,
                                               !.stack = Append(@, filename)],
                               "push", filename, FALSE)
              Popped(read) == [read EXCEPT !.stack = SubSeq(@, 1, Len(@) - 1),
                                           !.build = tmpBuildHotkeyMap]
          IN CHOOSE v \in
               {[reg |-> Logged(popped, "return", filename, TRUE), ret |-> TRUE] :
                  popped \in {Popped(read) :
                    read \in {LoadLines(start, FileLines(reg.files, filename), 1,
                                        Len(FileLines(reg.files, filename))) :
                      start \in {pushed}}}} : TRUE

\* the keyload and keyreload branches after their first lines: the defaults
\* when no load is going on and no file is named, then the file
ExecLoad(reg, words) ==
  LET filename == IF Len(words) > 1 THEN words[2] ELSE DEFAULT_FILENAME
  IN CHOOSE v \in
       {Load(r, filename).reg :
          r \in {IF reg.stack = <<>> /\ Len(words) = 1 THEN LoadDefaults(reg)
                 ELSE reg}} : TRUE

\* the outcome of a branch of ExecuteCommand: the registry it leaves, and
\* whether the end of ExecuteCommand is reached
Branch(reg, ok) == [reg |-> reg, ok |-> ok]

\* a branch that calls a mutator: the stores and the counter it leaves
After(reg, r, count) ==
  Branch([reg EXCEPT !.code = r.code, !.scan = r.scan, !.count = count], r.ret)

\* the chain of branches on the command word, read in lower case.  keydebug
\* switches debugEnabled, with or without an argument; the flag only turns
\* log output on and is no variable here.
ExecBranch(reg, words) ==
  LET command == StringToLower(words[1])
  IN IF command = "keydebug"
     THEN Branch(reg, TRUE)
     ELSE IF command = "keyload"
     THEN Branch(ExecLoad(reg, words), TRUE)
     ELSE IF command = "keyreload"
     THEN CHOOSE v \in
            {Branch(ExecLoad(r2, words), TRUE) :
               r2 \in {ExecuteCommand(r1, <<"unbind", TextEnterChat[1],
                                            TextEnterChat[2]>>).reg :
                 r1 \in {ExecuteCommand(reg, <<"unbindall">>).reg}}} : TRUE
     ELSE IF command = "keydefaults"
     THEN Branch(LoadDefaults(reg), TRUE)
     ELSE IF command = "fakemeta" /\ Len(words) > 1
     THEN CHOOSE v \in
            {Branch([reg EXCEPT !.fakeMetaKey = r.fakeMetaKey], r.ret) :
               r \in {SetFakeMetaKey(reg.keysyms, reg.fakeMetaKey, words[2])}} : TRUE
     ELSE IF command = "keysym" /\ Len(words) > 2
     THEN CHOOSE v \in
            {Branch([reg EXCEPT !.keysyms = r.keysyms], r.ret) :
               r \in {AddKeySymbol(reg.keysyms, words[2], words[3])}} : TRUE
     ELSE IF command = "bind" /\ Len(words) > 2
     THEN CHOOSE v \in
            {After(reg, r, r.count) :
               r \in {Bind(reg.keysyms, reg.code, reg.scan, reg.count, words[2], words[3])}} : TRUE
     ELSE IF command = "unbind" /\ Len(words) > 2
     THEN CHOOSE v \in
            {After(reg, r, reg.count) :
               r \in {UnBind(reg.keysyms, reg.code, reg.scan, words[2], words[3])}} : TRUE
     ELSE IF command = "unbindaction" /\ Len(words) > 1
     THEN CHOOSE v \in
            {After(reg, r, reg.count) :
               r \in {UnBindAction(reg.code, reg.scan, words[2])}} : TRUE
     ELSE IF command = "unbindkeyset" /\ Len(words) > 1
     THEN CHOOSE v \in
            {After(reg, r, reg.count) :
               r \in {UnBindKeyset(reg.keysyms, reg.code, reg.scan, words[2])}} : TRUE
     ELSE IF command = "unbindall"
     THEN Branch(ExecUnbindAll(reg), TRUE)
     ELSE Branch(reg, FALSE)

\* the branch, then the end of ExecuteCommand when the branch did not return
ExecuteCommand(reg, words) ==
  IF words = <<>> THEN ExecReturnEarly(reg)
  ELSE CHOOSE v \in
         {IF b.ok THEN ExecFinish(b.reg) ELSE ExecReturnEarly(b.reg) :
            b \in {ExecBranch(reg, words)}} : TRUE

\* a name the key name table of the keyspace has for a key
GetName(key, space) ==
  CHOOSE n \in DOMAIN KeyTable[space] : KeyTable[space][n] = key

\* SaveUserKeySymbols of the key name table of one keyspace: a keysym line for
\* each key symbol of the user, the code written as a text that reads as it
RECURSIVE SaveUserKeySymbols(_, _)
SaveUserKeySymbols(table, space) ==
  IF DOMAIN table = {} THEN <<>>
  ELSE LET name == CHOOSE n \in DOMAIN table : TRUE
       IN << <<"keysym", name, <<<<GetName(table[name], space)>>>>>> >>
            \o SaveUserKeySymbols(MapErase(table, name), space)

\* the fakemeta line, written when a fake meta key is set
SaveFakeMetaKey(fakeMeta) ==
  IF fakeMeta >= 0 THEN << <<"fakemeta", <<<<GetName(fakeMeta, "KeyCode")>>>>>> >>
  ELSE <<>>

\* variant of FileSave used to test C12: the line unbind enter chat is not
\* written
FileSave_KeepChat(syms, fakeMeta, code, scan) ==
  LET all == GetKeyBindingListAll(code, scan)
  IN << <<"unbindall">> >>
       \o SaveUserKeySymbols(syms.KeyCode, "KeyCode")
       \o SaveUserKeySymbols(syms.ScanCode, "ScanCode")
       \o SaveFakeMetaKey(fakeMeta)
       \o [i \in 1..Len(all) |-> <<"bind", all[i].boundWith, all[i].action.rawline>>]

\* FileSave: unbindall, unbind enter chat, the key symbols of the user, the
\* fake meta key, then one bind line for each binding in the order of the
\* binding index
FileSave(syms, fakeMeta, code, scan) ==
  LET all == GetKeyBindingListAll(code, scan)
  IN << <<"unbindall">>, <<"unbind", TextEnterChat[1], TextEnterChat[2]>> >>
       \o SaveUserKeySymbols(syms.KeyCode, "KeyCode")
       \o SaveUserKeySymbols(syms.ScanCode, "ScanCode")
       \o SaveFakeMetaKey(fakeMeta)
       \o [i \in 1..Len(all) |-> <<"bind", all[i].boundWith, all[i].action.rawline>>]

(***************************************************************************)
(* Inputs                                                                  *)
(***************************************************************************)
\* shortcut texts
TextA      == <<<<"a">>>>
TextShiftA == <<<<"Shift", "a">>>>
TextAnyA   == <<<<"Any", "a">>>>
TextScA    == <<<<"sc_a">>>>
TextAA     == <<<<"a">>, <<"a">>>>
TextEnter  == <<<<"enter">>>>
TextBogus  == <<<<"bogus">>>>
TextFoo    == <<<<"foo">>>>
TextScEnter == <<<<"sc_enter">>>>

\* the <shortcut, action line> pairs given to bind: one line on the two
\* keyspaces, on the exact and the wildcard keyset of a key, behind a chain
\* and alone, a command with and without extra text, a stateful command, a
\* text that names no key, a text that names a key once the user has added
\* the key symbol
BindInputs ==
  { <<TextA, <<"attack">>>>,           <<TextA, <<"attack", "queued">>>>,
    <<TextA, <<"moveforward">>>>,      <<TextShiftA, <<"attack", "queued">>>>,
    <<TextShiftA, <<"moveforward">>>>, <<TextAnyA, <<"attack">>>>,
    <<TextScA, <<"attack">>>>,         <<TextScA, <<"moveforward">>>>,
    <<TextAA, <<"attack">>>>,          <<TextBogus, <<"attack">>>>,
    <<TextFoo, <<"attack">>>> }

\* the pairs given to Bind when it is called directly
DirectBindInputs ==
  { <<TextA, <<"attack">>>>, <<TextShiftA, <<"moveforward">>>>,
    <<TextBogus, <<"attack">>>>, <<TextA, <<>>>> }

\* the <shortcut, command> pairs given to unbind
UnbindInputs ==
  { <<TextA, <<"attack">>>>,    <<TextA, <<"moveforward">>>>,
    <<TextAnyA, <<"moveforward">>>>, <<TextScA, <<"attack">>>>,
    <<TextEnter, <<"chat">>>>,  <<TextAA, <<"attack">>>>,
    <<TextAnyA, <<"attack">>>> }

CommandTexts == { <<"attack">>, <<"moveforward">>, <<"chat">> }

UnbindKeyStrs == { TextA, TextAnyA, TextScA, TextEnter, TextAA }

\* the files on disk at the start: the default file, a file that loads
\* itself in the middle, two files that load each other, a file that loads
\* the default file and holds a line that fails, a file that asks for the
\* defaults
InstalledFiles ==
  [n \in {"uikeys.txt", "self.txt", "ping.txt", "pong.txt", "incl.txt", "defs.txt"} |->
     CASE n = "uikeys.txt" -> << <<"bind", TextScA, <<"attack">>>> >>
       [] n = "self.txt"   -> << <<"bind", TextA, <<"moveforward">>>>,
                                 <<"keyload", "self.txt">>,
                                 <<"bind", TextScA, <<"moveforward">>>> >>
       [] n = "ping.txt"   -> << <<"bind", TextA, <<"attack">>>>,
                                 <<"keyload", "pong.txt">> >>
       [] n = "pong.txt"   -> << <<"keyload", "ping.txt">>,
                                 <<"bind", TextShiftA, <<"attack", "queued">>>> >>
       [] n = "incl.txt"   -> << <<"keyload">>,
                                 <<"bind", TextBogus, <<"attack">>>> >>
       [] n = "defs.txt"   -> << <<"keydefaults">>,
                                 <<"bind", TextScA, <<"attack">>>> >>]

SavedFilename == "uikeys.tmp"

LoadCommandLines ==
  {<<"keyload">>, <<"keyreload">>, <<"keydefaults">>, <<"keydebug">>}
    \cup {<<"keyload", f>> : f \in {"self.txt", "ping.txt", "pong.txt", "incl.txt",
                                   "defs.txt", "none.txt"}}
    \cup {<<"keyreload", "ping.txt">>}

\* fakemeta: a key code, none in two cases, a scan code, no key, no argument
FakeMetaCommandLines ==
  {<<"fakemeta", k>> : k \in {TextA, TextNone, <<<<"None">>>>, TextScA, TextBogus}}
    \cup {<<"fakemeta">>}

\* keysym: a new name for a key code and for a scan code, a name in use, a
\* code that is no key, no code
KeySymCommandLines ==
  {<<"keysym", "foo", TextA>>, <<"keysym", "foo", TextScA>>,
   <<"keysym", "Foo", TextA>>, <<"keysym", "alt", TextScEnter>>,
   <<"keysym", "a", TextA>>, <<"keysym", "foo", TextBogus>>, <<"keysym", "foo">>}

\* command words that are not in lower case, keydebug with an argument
OtherCommandLines ==
  {<<"BIND", TextA, <<"attack">>>>, <<"KeyLoad", "ping.txt">>, <<"keydebug", "1">>}

CommandLines ==
  {<<"bind", x[1], x[2]>> : x \in BindInputs}
    \cup {<<"bind", TextA>>}
    \cup FakeMetaCommandLines
    \cup KeySymCommandLines
    \cup OtherCommandLines
    \cup {<<"unbind", x[1], x[2]>> : x \in UnbindInputs}
    \cup {<<"unbindaction", c>> : c \in CommandTexts}
    \cup {<<"unbindkeyset", k>> : k \in UnbindKeyStrs}
    \cup {<<"unbindall">>}
    \cup LoadCommandLines

\* a physical key is seen as a key code and as a scan code
KeyA == [code |-> 97, scan |-> 4]

KeyEnter == [code |-> 13, scan |-> 40]

Live(pk, mod, times) ==
  [kc |-> [i \in 1..Len(times) |->
             [ks |-> KeySet(pk.code, mod, "KeyCode"), t |-> times[i]]],
   sc |-> [i \in 1..Len(times) |->
             [ks |-> KeySet(pk.scan, mod, "ScanCode"), t |-> times[i]]]]

PhysicalKeys == { KeyA, KeyEnter }

\* the modifier sets a live chord can have
LiveMods == SUBSET {"Alt", "Ctrl", "Meta", "Shift"}

\* the times between the two chords of a live chain, in ms: the timeouts the
\* registry is given, and times beyond them
LiveGaps == {100, 750, 751, 1001}

\* the values ConfigNotify is given for KeyChainTimeout, and what atoi reads
\* in them: the number a text starts with, 0 when it starts with none
ConfigValues == {"100", "1000", "abc"}

atoi(value) ==
  CASE value = "100"  -> 100
    [] value = "1000" -> 1000
    [] value = "abc"  -> 0

LiveInputs ==
  {Live(KeyA, mod, <<0>>) : mod \in LiveMods \cup {{"Any"}}}
    \cup {Live(KeyEnter, {}, <<0>>)}
    \cup {Live(KeyA, {}, <<0, dt>>) : dt \in LiveGaps}

\* the chains given to the lookup of one keyspace: each chain of a live input,
\* and the empty chain
LiveChains == {<<>>} \cup {live.kc : live \in LiveInputs} \cup {live.sc : live \in LiveInputs}

HotkeyQueries == { <<"attack">>, <<"attack", "queued">>, <<"moveforward">>,
                   <<"chat">>, <<"quit">> }

(***************************************************************************)
(* State machine                                                           *)
(***************************************************************************)
Registry ==
  [code |-> codeBindings, scan |-> scanBindings, count |-> bindingsCount,
   hotkeys |-> hotkeys, build |-> buildHotkeyMap, stack |-> loadStack,
   fakeMetaKey |-> fakeMetaKey, keysyms |-> keysyms,
   files |-> files, log |-> <<>>]

Called(op, args, ret, inner, rebuilt, out) ==
  [op |-> op, args |-> args, ret |-> ret, inner |-> inner,
   rebuilt |-> rebuilt, out |-> out]

\* last is a history variable.  It holds the record of the one call a
\* behaviour observes: the calls made before it leave it idle, and the
\* behaviour ends with the observed call.  Every call from every reachable
\* registry is observed in some behaviour, but for the calls that the runs
\* that are followed leave aside.
Idle == Called("none", <<>>, FALSE, FALSE, FALSE, <<>>)

Observe(obs, record) == last' = IF obs THEN record ELSE Idle

Init ==
  /\ codeBindings = EmptyMap
  /\ scanBindings = EmptyMap
  /\ bindingsCount = 0
  /\ hotkeys = EmptyMap
  /\ buildHotkeyMap = TRUE
  /\ loadStack = <<>>
  /\ fakeMetaKey = -1
  /\ keyChainTimeout = 750
  /\ keysyms = NoKeySymbols
  /\ files = InstalledFiles
  /\ last = Idle

\* the files that run keydefaults
FilesWithDefaults ==
  {f \in DOMAIN InstalledFiles :
     \E i \in 1..Len(InstalledFiles[f]) : InstalledFiles[f][i][1] = "keydefaults"}

\* the command lines that get to LoadDefaults when they are given from the top
LoadsDefaults(words) ==
  \/ StringToLower(words[1]) = "keydefaults"
  \/ /\ StringToLower(words[1]) \in {"keyload", "keyreload"}
     /\ (IF Len(words) = 1 THEN TRUE ELSE words[2] \in FilesWithDefaults)

\* the counter has gone past its bound: the default table has been loaded
PastBound == bindingsCount > MaxBindings

\* a fake meta key is set, or the user has added a key symbol
Settled == fakeMetaKey >= 0 \/ keysyms # NoKeySymbols

\* the registry has bound nothing yet
Fresh == bindingsCount = 0

\* The runs that are followed.  bind is given while the counter is below its
\* bound.  fakemeta, keysym and the commands that load the default table are
\* given to a registry that has bound nothing yet.  Once the table is loaded,
\* and once something is bound with a fake meta key or a key symbol set, the
\* next call is the observed one (the save and the load of the saved file
\* count as one call).
LastCall == PastBound \/ (Settled /\ ~Fresh)

\* ConfigNotify has changed the timeout Init has set
Reloaded == keyChainTimeout # 750

\* Only CKeyChain::fit reads the timeout, and only for a live chain of more
\* than one chord.  The runs that are followed change the timeout right
\* before the lookups of such chains (and before Kill and Init): every other
\* call does the same under every timeout and is followed under the timeout
\* of Init.
FollowedLookup(chain) == ~Reloaded \/ Len(chain) > 1

\* Bind called directly, as LoadDefaults and unbindall call it
CallBind(keystr, line, obs) ==
  /\ last = Idle
  /\ ~Reloaded
  /\ bindingsCount < MaxBindings
  /\ LastCall => obs
  /\ \E r \in {Bind(keysyms, codeBindings, scanBindings, bindingsCount, keystr, line)} :
        /\ codeBindings' = r.code
        /\ scanBindings' = r.scan
        /\ bindingsCount' = r.count
        /\ Observe(obs, Called("Bind", <<keystr, line>>, r.ret, r.ret, FALSE, <<>>))
  /\ UNCHANGED <<hotkeys, buildHotkeyMap, loadStack, fakeMetaKey, keysyms, files, keyChainTimeout>>

\* a top-level ExecuteCommand; the record of the call holds its log
CallExecuteCommand(words, obs) ==
  /\ last = Idle
  /\ ~Reloaded
  /\ StringToLower(words[1]) = "bind" => bindingsCount < MaxBindings
  /\ StringToLower(words[1]) \in {"fakemeta", "keysym"} => Fresh
  /\ LoadsDefaults(words) => ((Fresh /\ (obs \/ ~Settled)) \/ PastBound)
  /\ LastCall => obs
  /\ \E r \in {ExecuteCommand(Registry, words)} :
        /\ r.reg.count <= MaxBindings \/ LoadsDefaults(words) \/ PastBound
        /\ codeBindings' = r.reg.code
        /\ scanBindings' = r.reg.scan
        /\ bindingsCount' = r.reg.count
        /\ hotkeys' = r.reg.hotkeys
        /\ buildHotkeyMap' = r.reg.build
        /\ loadStack' = r.reg.stack
        /\ fakeMetaKey' = r.reg.fakeMetaKey
        /\ keysyms' = r.reg.keysyms
        /\ Observe(obs, Called("ExecuteCommand", words, r.ret, r.inner, r.rebuilt,
                               r.reg.log))
  /\ UNCHANGED <<files, keyChainTimeout>>

\* keysave: Save(filename) writes the lines of FileSave to the file.  The
\* call is always observed; the only call after it is the load of that file.
CallSave ==
  /\ last = Idle
  /\ ~Reloaded
  /\ \E saved \in {FileSave(keysyms, fakeMetaKey, codeBindings, scanBindings)} :
        /\ files' = MapPut(files, SavedFilename, saved)
        /\ last' = Called("Save", <<SavedFilename>>, TRUE, TRUE, FALSE, saved)
  /\ UNCHANGED <<codeBindings, scanBindings, bindingsCount, hotkeys, buildHotkeyMap,
                 loadStack, fakeMetaKey, keysyms, keyChainTimeout>>

\* ExecuteCommand("keyload <saved file>") right after the save; the record of
\* the call keeps the stores the file was saved from
CallKeyloadSaved ==
  /\ last.op = "Save"
  /\ \E r \in {ExecuteCommand(Registry, <<"keyload", last.args[1]>>)} :
        /\ codeBindings' = r.reg.code
        /\ scanBindings' = r.reg.scan
        /\ bindingsCount' = r.reg.count
        /\ hotkeys' = r.reg.hotkeys
        /\ buildHotkeyMap' = r.reg.build
        /\ loadStack' = r.reg.stack
        /\ fakeMetaKey' = r.reg.fakeMetaKey
        /\ keysyms' = r.reg.keysyms
        /\ last' = Called("KeyloadSaved",
                          <<"keyload", last.args[1],
                            [code |-> codeBindings, scan |-> scanBindings]>>,
                          r.ret, r.inner, r.rebuilt, r.reg.log)
  /\ UNCHANGED <<files, keyChainTimeout>>

\* Kill: the stores, the hotkey index and the load stack are cleared
\* (statefulCommands too: Init fills it again, and no call is made between
\* Kill and Init)
CallKill ==
  /\ last = Idle
  /\ codeBindings' = EmptyMap
  /\ scanBindings' = EmptyMap
  /\ hotkeys' = EmptyMap
  /\ loadStack' = <<>>
  /\ last' = Called("Kill", <<>>, FALSE, FALSE, FALSE, <<>>)
  /\ UNCHANGED <<bindingsCount, buildHotkeyMap, fakeMetaKey, keysyms, files, keyChainTimeout>>

\* Init after Kill: of the variables of the model it sets fakeMetaKey,
\* keyChainTimeout and buildHotkeyMap
CallInit(obs) ==
  /\ last.op = "Kill"
  /\ fakeMetaKey' = -1
  /\ keyChainTimeout' = 750
  /\ buildHotkeyMap' = TRUE
  /\ Observe(obs, Called("Init", <<>>, FALSE, FALSE, FALSE, <<>>))
  /\ UNCHANGED <<codeBindings, scanBindings, bindingsCount, hotkeys, loadStack,
                 keysyms, files>>

CallBuildHotkeyMap(obs) ==
  /\ last = Idle
  /\ ~Reloaded
  /\ LastCall => obs
  /\ hotkeys' = BuildHotkeyMap(codeBindings, scanBindings)
  /\ Observe(obs, Called("BuildHotkeyMap", <<>>, FALSE, FALSE, TRUE, <<>>))
  /\ UNCHANGED <<codeBindings, scanBindings, bindingsCount, buildHotkeyMap,
                 loadStack, fakeMetaKey, keysyms, files, keyChainTimeout>>

\* variant of CallGetKeyBindingList used to test C28: a key-code binding that
\* the merge leaves out is taken out of its list in the store too
CallGetKeyBindingList_OnStore(live) ==
  /\ last = Idle
  /\ FollowedLookup(live.kc)
  /\ \E out \in {GetKeyBindingList(codeBindings, scanBindings, live.kc, live.sc)} :
        /\ codeBindings' =
              [k \in DOMAIN codeBindings |->
                 SelectSeq(codeBindings[k],
                           LAMBDA b : \/ ~fit(live.kc, b.keyChain)
                                      \/ \E i \in 1..Len(out) : out[i] = b)]
        /\ Observe(TRUE, Called("GetKeyBindingList", live, FALSE, FALSE, FALSE, out))
  /\ UNCHANGED <<scanBindings, bindingsCount, hotkeys, buildHotkeyMap, loadStack,
                 fakeMetaKey, keysyms, files, keyChainTimeout>>

\* GetKeyBindingList(kc, sc)
CallGetKeyBindingList(live) ==
  /\ last = Idle
  /\ FollowedLookup(live.kc)
  /\ Observe(TRUE, Called("GetKeyBindingList", live, FALSE, FALSE, FALSE,
                  GetKeyBindingList(codeBindings, scanBindings, live.kc, live.sc)))
  /\ UNCHANGED <<codeBindings, scanBindings, bindingsCount, hotkeys, buildHotkeyMap,
                 loadStack, fakeMetaKey, keysyms, files, keyChainTimeout>>

\* GetKeyBindingList(kc, sc) called once more with the chains of the call
\* before it, nothing called in between
CallGetKeyBindingListAgain ==
  /\ last.op = "GetKeyBindingList"
  /\ last' = Called("GetKeyBindingListAgain", last.args, FALSE, FALSE, FALSE,
                    GetKeyBindingList(codeBindings, scanBindings,
                                      last.args.kc, last.args.sc))
  /\ UNCHANGED <<codeBindings, scanBindings, bindingsCount, hotkeys, buildHotkeyMap,
                 loadStack, fakeMetaKey, keysyms, files, keyChainTimeout>>

\* GetKeyBindingList(kc)
CallGetKeyBindingListKC(kc) ==
  /\ last = Idle
  /\ FollowedLookup(kc)
  /\ Observe(TRUE, Called("GetKeyBindingListKC", kc, FALSE, FALSE, FALSE,
                  GetKeyBindingListKC(codeBindings, scanBindings, kc)))
  /\ UNCHANGED <<codeBindings, scanBindings, bindingsCount, hotkeys, buildHotkeyMap,
                 loadStack, fakeMetaKey, keysyms, files, keyChainTimeout>>

\* GetKeyBindingList(): any of the lists the sort can leave
CallGetKeyBindingListAll ==
  /\ last = Idle
  /\ ~Reloaded
  /\ \E out \in GetKeyBindingListAllOutcomes(codeBindings, scanBindings) :
        Observe(TRUE, Called("GetKeyBindingListAll", <<>>, FALSE, FALSE, FALSE, out))
  /\ UNCHANGED <<codeBindings, scanBindings, bindingsCount, hotkeys, buildHotkeyMap,
                 loadStack, fakeMetaKey, keysyms, files, keyChainTimeout>>

CallGetHotkeys(action) ==
  /\ last = Idle
  /\ ~Reloaded
  /\ Observe(TRUE, Called("GetHotkeys", action, FALSE, FALSE, FALSE,
                  GetHotkeys(hotkeys, action)))
  /\ UNCHANGED <<codeBindings, scanBindings, bindingsCount, hotkeys, buildHotkeyMap,
                 loadStack, fakeMetaKey, keysyms, files, keyChainTimeout>>

\* ConfigNotify: the configuration value KeyChainTimeout has changed (Init
\* asks to be told of it)
CallConfigNotify(value) ==
  /\ last = Idle
  /\ keyChainTimeout' = atoi(value)
  /\ UNCHANGED <<codeBindings, scanBindings, bindingsCount, hotkeys, buildHotkeyMap,
                 loadStack, fakeMetaKey, keysyms, files, last>>

Next ==
  \/ \E x \in DirectBindInputs, obs \in BOOLEAN : CallBind(x[1], x[2], obs)
  \/ \E words \in CommandLines, obs \in BOOLEAN : CallExecuteCommand(words, obs)
  \/ \E obs \in BOOLEAN : CallBuildHotkeyMap(obs)
  \/ \E live \in LiveInputs : CallGetKeyBindingList(live)
  \/ CallGetKeyBindingListAgain
  \/ \E kc \in LiveChains : CallGetKeyBindingListKC(kc)
  \/ CallGetKeyBindingListAll
  \/ \E action \in HotkeyQueries : CallGetHotkeys(action)
  \/ CallSave
  \/ CallKeyloadSaved
  \/ CallKill
  \/ \E obs \in BOOLEAN : CallInit(obs)
  \/ \E value \in ConfigValues : CallConfigNotify(value)

Spec == Init /\ [][Next]_vars

(***************************************************************************)
(* Vocabulary of the properties                                            *)
(***************************************************************************)
Trigger(b) == Back(b.keyChain)

AllStored == HeldIn(codeBindings) \cup HeldIn(scanBindings)

CountLine(list, line) ==
  Cardinality({i \in 1..Len(list) : list[i].action.line = line})

\* the stored bindings a live chain reaches in one keyspace: held under the
\* keyset of the live trigger chord or under its wildcard keyset, and fitting
HitBy(bindings, chain) ==
  {b \in HeldUnder(bindings, {Back(chain).ks, SetAnyBit(Back(chain).ks)}) :
     fit(chain, b.keyChain)}

ResolvedNow == last.op = "GetKeyBindingList"

(***************************************************************************)
(* C1                                                                      *)
(***************************************************************************)
\* a line bound in each keyspace, under keysets of the same modifier kind,
\* both bindings reached by the live input
DuplicatePair(bk, bs, live) ==
  /\ bk \in HitBy(codeBindings, live.kc)
  /\ bs \in HitBy(scanBindings, live.sc)
  /\ bk.action.line = bs.action.line
  /\ AnyMod(Trigger(bk)) = AnyMod(Trigger(bs))

\* C1: when a line is bound to a key-code keyset and to the corresponding
\* scan-code keyset of the same modifier kind, and the live pair of chains
\* reaches both bindings, the list GetKeyBindingList(kc, sc) returns holds
\* exactly one entry with the line, and the entry is the binding of the pair
\* with the lower global binding index.
C1_OneSurvivorLowerIndex ==
  ResolvedNow =>
    \A bk \in HeldIn(codeBindings), bs \in HeldIn(scanBindings) :
      DuplicatePair(bk, bs, last.args) =>
        /\ CountLine(last.out, bk.action.line) = 1
        /\ \A i \in 1..Len(last.out) :
             last.out[i].action.line = bk.action.line =>
               last.out[i] = IF bk.bindingIndex < bs.bindingIndex THEN bk ELSE bs

\* What the merge of the pair does: among the entries of the modifier kind of
\* the pair, exactly one has the line, the binding of the pair with the lower
\* global binding index.  A binding of the line under the other modifier kind
\* comes from the other merge and stays in the list beside it.
PairMergedToOlder ==
  ResolvedNow =>
    \A bk \in HeldIn(codeBindings), bs \in HeldIn(scanBindings) :
      DuplicatePair(bk, bs, last.args) =>
        LET ofKind == SelectSeq(last.out,
                                LAMBDA b : AnyMod(Trigger(b)) = AnyMod(Trigger(bk)))
        IN /\ CountLine(ofKind, bk.action.line) = 1
           /\ \A i \in 1..Len(ofKind) :
                ofKind[i].action.line = bk.action.line =>
                  ofKind[i] = IF bk.bindingIndex < bs.bindingIndex THEN bk ELSE bs

\* the pair is reached, the scan-code binding is the older one, and the list
\* holds another entry too
PairReachedScanOlder ==
  /\ ResolvedNow
  /\ Len(last.out) >= 2
  /\ \E bk \in HeldIn(codeBindings), bs \in HeldIn(scanBindings) :
       /\ DuplicatePair(bk, bs, last.args)
       /\ bs.bindingIndex < bk.bindingIndex

\* the pair is reached and the line is bound under the other modifier kind
\* of the key too: the list holds the line twice
PairReachedWithThird ==
  /\ ResolvedNow
  /\ \E bk \in HeldIn(codeBindings), bs \in HeldIn(scanBindings) :
       /\ DuplicatePair(bk, bs, last.args)
       /\ CountLine(last.out, bk.action.line) = 2

(***************************************************************************)
(* C2                                                                      *)
(***************************************************************************)
\* C2: in every list GetKeyBindingList(kc, sc) returns, each binding with a
\* wildcard trigger chord comes behind each binding with an exact-modifier
\* trigger chord, whatever their binding indices are.
C2_WildcardAfterExact ==
  ResolvedNow =>
    \A i, j \in 1..Len(last.out) :
      (~AnyMod(Trigger(last.out[i])) /\ AnyMod(Trigger(last.out[j]))) => i < j

\* the list holds both kinds and the wildcard binding was bound first
C2_Witness ==
  /\ ResolvedNow
  /\ \E i, j \in 1..Len(last.out) :
       /\ ~AnyMod(Trigger(last.out[i]))
       /\ AnyMod(Trigger(last.out[j]))
       /\ last.out[j].bindingIndex < last.out[i].bindingIndex

(***************************************************************************)
(* C3                                                                      *)
(***************************************************************************)
\* the observed call is a successful Bind(keystr, line), made directly or by
\* the bind command
BoundNow(keystr, line) ==
  \/ last.op = "Bind" /\ last.ret /\ last.args = <<keystr, line>>
  \/ last.op = "ExecuteCommand" /\ last.inner /\ last.args = <<"bind", keystr, line>>

\* the live input is the shortcut: the same chords with the same modifiers in
\* the keyspace of the shortcut, pressed within the timeout
MatchesExactly(live, keystr) ==
  LET p     == ParseKeyChain(keysyms, keystr)
      chain == IF IsKeyCode(Back(p.kc)) THEN live.kc ELSE live.sc
  IN /\ p.ok
     /\ Len(chain) = Len(p.kc)
     /\ \A i \in 1..Len(chain) : chain[i].ks = p.kc[i]
     /\ \A i \in 1..(Len(chain) - 1) : chain[i + 1].t - chain[i].t <= keyChainTimeout

\* C3: after a successful Bind(shortcut, action), repeated or not, from any
\* reachable registry, resolving the live input that is exactly the shortcut
\* returns a list that holds the action exactly once.
C3_BindThenLookupOnce ==
  \A x \in BindInputs :
    BoundNow(x[1], x[2]) =>
      \A live \in LiveInputs :
        MatchesExactly(live, x[1]) =>
          CountLine(GetKeyBindingList(codeBindings, scanBindings, live.kc, live.sc),
                    x[2]) = 1

(***************************************************************************)
(* C4                                                                      *)
(***************************************************************************)
NoLineTwice(bindings) ==
  \A k \in DOMAIN bindings :
    \A i, j \in 1..Len(bindings[k]) :
      i # j => bindings[k][i].action.line # bindings[k][j].action.line

\* C4: in the binding list of a keyset, in either store, no two bindings have
\* the same action line, whatever binds and unbinds were made.
C4_NoDuplicateLineInList == NoLineTwice(codeBindings) /\ NoLineTwice(scanBindings)

\* a Bind of a line that its trigger keyset already held (the entry of the list
\* with that line was bound with another text), in a list of two
C4_Witness ==
  /\ last.op = "Bind" /\ last.ret
  /\ \E b \in AllStored :
       /\ b.action.line = last.args[2]
       /\ Trigger(b) = Back(ParseKeyChain(keysyms, last.args[1]).kc)
       /\ b.boundWith # last.args[1]
       /\ \E c \in AllStored : c # b /\ Trigger(c) = Trigger(b)

(***************************************************************************)
(* C5                                                                      *)
(***************************************************************************)
\* C5: after UnBindAction(command) no binding with that command is left in
\* the key-code store nor in the scan-code store.
C5_UnBindActionClearsBothStores ==
  (last.op = "ExecuteCommand" /\ StringToLower(last.args[1]) = "unbindaction") =>
    \A b \in AllStored : <<b.action.command>> # last.args[2]

(***************************************************************************)
(* C6                                                                      *)
(***************************************************************************)
EnterPlain == Live(KeyEnter, {}, <<0>>)

\* C6: right after unbindall the registry holds the one binding enter -> chat,
\* in the key-code store, with index 1, the counter is 1, and resolving Enter
\* without modifiers returns the chat action.
C6_UnbindAllLeavesChat ==
  (last.op = "ExecuteCommand" /\ last.args = <<"unbindall">>) =>
    /\ scanBindings = EmptyMap
    /\ DOMAIN codeBindings = {KeySet(13, {}, "KeyCode")}
    /\ Len(codeBindings[KeySet(13, {}, "KeyCode")]) = 1
    /\ LET b == codeBindings[KeySet(13, {}, "KeyCode")][1]
       IN /\ b.action.command = "chat"
          /\ b.action.line = <<"chat">>
          /\ b.bindingIndex = 1
          /\ b.keyChain = <<KeySet(13, {}, "KeyCode")>>
    /\ bindingsCount = 1
    /\ CountLine(GetKeyBindingList(codeBindings, scanBindings,
                                   EnterPlain.kc, EnterPlain.sc), <<"chat">>) = 1

\* unbindall has run, and the index was rebuilt for the one binding
C6_Witness ==
  /\ last.op = "ExecuteCommand" /\ last.args = <<"unbindall">>
  /\ last.rebuilt
  /\ DOMAIN hotkeys = {<<"chat">>}

(***************************************************************************)
(* C7                                                                      *)
(***************************************************************************)
BindCannotWork(keystr, line) ==
  Action(line).command = "" \/ ~ParseKeyChain(keysyms, keystr).ok

\* C7: a Bind whose action command is empty or whose shortcut does not parse
\* returns false and leaves both stores, the index counter and the hotkey
\* index as they were.
C7_FailedBindChangesNothing ==
  [][ (last'.op = "Bind" /\ (~last'.ret \/ BindCannotWork(last'.args[1], last'.args[2])))
        => /\ ~last'.ret
           /\ BindCannotWork(last'.args[1], last'.args[2])
           /\ UNCHANGED <<codeBindings, scanBindings, bindingsCount, hotkeys>> ]_vars

\* a Bind with an empty action has failed on a registry that holds bindings
\* and a built index
C7_Witness ==
  /\ last.op = "Bind" /\ ~last.ret
  /\ last.args[2] = <<>>
  /\ AllStored # {}
  /\ DOMAIN hotkeys # {}

(***************************************************************************)
(* C8                                                                      *)
(***************************************************************************)
StatefulUnderWildcard(bindings) ==
  \A k \in DOMAIN bindings :
    \A i \in 1..Len(bindings[k]) :
      bindings[k][i].action.command \in statefulCommands =>
        /\ AnyMod(Trigger(bindings[k][i]))
        /\ Trigger(bindings[k][i]) = k
        /\ k.mod = {"Any"}

\* C8: every stored binding of a stateful command has a trigger chord with the
\* wildcard modifier and is stored under that wildcard keyset, whatever
\* modifiers its shortcut text carried.
C8_StatefulForcedToAny ==
  StatefulUnderWildcard(codeBindings) /\ StatefulUnderWildcard(scanBindings)

\* a stateful command has been bound with a shortcut text that names Shift
C8_Witness ==
  /\ last.op = "Bind" /\ last.ret
  /\ last.args = <<TextShiftA, <<"moveforward">>>>
  /\ \E b \in AllStored :
       b.action.command = "moveforward" /\ b.boundWith = TextShiftA

(***************************************************************************)
(* C9                                                                      *)
(***************************************************************************)
\* the number of places in the lists of a KeyMap
TotalHeld(bindings) ==
  Cardinality(UNION {{<<k, i>> : i \in 1..Len(bindings[k])} : k \in DOMAIN bindings})

\* C9: GetKeyBindingList() returns each binding of the two stores exactly
\* once, in strictly increasing order of global binding index.
C9_AllBindingsInIndexOrder ==
  last.op = "GetKeyBindingListAll" =>
    /\ Len(last.out) = TotalHeld(codeBindings) + TotalHeld(scanBindings)
    /\ \A i \in 1..Len(last.out) : last.out[i] \in AllStored
    /\ \A b \in AllStored : Cardinality({i \in 1..Len(last.out) : last.out[i] = b}) = 1
    /\ \A i, j \in 1..Len(last.out) :
         i < j => last.out[i].bindingIndex < last.out[j].bindingIndex

\* three bindings are returned, the middle one from the other store than its
\* neighbours, two of them from one list
C9_Witness ==
  /\ last.op = "GetKeyBindingListAll"
  /\ Len(last.out) = 3
  /\ IsKeyCode(Trigger(last.out[1]))
  /\ ~IsKeyCode(Trigger(last.out[2]))
  /\ Trigger(last.out[3]) = Trigger(last.out[1])

(***************************************************************************)
(* C10                                                                     *)
(***************************************************************************)
\* command[+extra] of a binding
CommandAndExtra(b) == <<b.action.command>> \o b.action.extra

BoundTo(key) == {b \in AllStored : CommandAndExtra(b) = key}

\* C10: right after BuildHotkeyMap the index has an entry for exactly the
\* keys command[+extra] of the stored bindings, and the entry of a key lists
\* boundWith of the bindings of that key in increasing binding index order;
\* GetHotkeys of a key without entry returns the empty list.
C10_HotkeyIndexAfterRebuild ==
  /\ last.rebuilt =>
       /\ DOMAIN hotkeys = {CommandAndExtra(b) : b \in AllStored}
       /\ \A key \in DOMAIN hotkeys :
            /\ Len(hotkeys[key]) = Cardinality(BoundTo(key))
            /\ \A b \in BoundTo(key) :
                 hotkeys[key][1 + Cardinality({c \in BoundTo(key) :
                                                 c.bindingIndex < b.bindingIndex})]
                   = b.boundWith
  /\ last.op = "GetHotkeys" =>
       /\ last.args \notin DOMAIN hotkeys => last.out = <<>>
       /\ last.args \in DOMAIN hotkeys => last.out = hotkeys[last.args]

\* the index was rebuilt for a command bound twice, in both stores, and for the
\* same command with an extra text
C10_Witness ==
  /\ last.rebuilt
  /\ <<"attack">> \in DOMAIN hotkeys
  /\ <<"attack", "queued">> \in DOMAIN hotkeys
  /\ Len(hotkeys[<<"attack">>]) = 2
  /\ hotkeys[<<"attack">>][1] = TextScA

\* GetHotkeys was asked for a command the index has no entry for, while the
\* index is not empty
C10_WitnessAbsent ==
  /\ last.op = "GetHotkeys"
  /\ last.args \notin DOMAIN hotkeys
  /\ DOMAIN hotkeys # {}

(***************************************************************************)
(* C11                                                                     *)
(***************************************************************************)
InSyncOf(hk, code, scan) == hk = BuildHotkeyMap(code, scan)

InSync == InSyncOf(hotkeys, codeBindings, scanBindings)

Builds(log) == {i \in 1..Len(log) : log[i].kind = "build"}

Pushes(log) == {i \in 1..Len(log) : log[i].kind = "push"}

\* C11: a top-level ExecuteCommand that starts with the hotkey index in sync
\* and the rebuild flag set ends with the hotkey index in sync, whether the
\* command succeeds or fails; no rebuild is made while a file is on the load
\* stack; a top-level keyload makes one rebuild, after its Load has returned.
C11_ExecuteCommandKeepsIndexInSync ==
  [][(last = Idle /\ InSync /\ buildHotkeyMap /\ last'.op = "ExecuteCommand") =>
       /\ InSyncOf(hotkeys', codeBindings', scanBindings')
       /\ buildHotkeyMap'
       /\ \A i \in Builds(last'.out) : last'.out[i].stack = <<>>
       /\ StringToLower(last'.args[1]) = "keyload" =>
            LET log == last'.out
            IN /\ Builds(log) = {Len(log)}
               /\ log[Len(log) - 1].kind = "return"
               /\ log[Len(log) - 1].stack = <<>>]_vars

\* a keyload of a file that loads another file has been made: two files were
\* pushed, one rebuild followed, the index holds what the files bound
C11_Witness ==
  /\ last.op = "ExecuteCommand"
  /\ last.args = <<"keyload", "ping.txt">>
  /\ Cardinality(Pushes(last.out)) = 2
  /\ Cardinality(Builds(last.out)) = 1
  /\ InSync
  /\ <<"attack", "queued">> \in DOMAIN hotkeys

(***************************************************************************)
(* C12                                                                     *)
(***************************************************************************)
CommandsOf(list) == {list[i].action.command : i \in 1..Len(list)}

SameKeysetCommands(b1, b2) ==
  /\ DOMAIN b1 = DOMAIN b2
  /\ \A k \in DOMAIN b1 : CommandsOf(b1[k]) = CommandsOf(b2[k])

\* a list of bindings without the index values
Unindexed(list) == [i \in 1..Len(list) |-> [list[i] EXCEPT !.bindingIndex = 0]]

\* C12: the store saved by FileSave and replayed through ExecuteCommand maps
\* every keyset of both keyspaces to the same set of commands as before, and
\* holds the bindings in the same insertion order; index values may differ.
C12_SaveReplayRoundTrip ==
  last.op = "KeyloadSaved" =>
    /\ SameKeysetCommands(last.args[3].code, codeBindings)
    /\ SameKeysetCommands(last.args[3].scan, scanBindings)
    /\ Unindexed(GetKeyBindingListAll(last.args[3].code, last.args[3].scan))
         = Unindexed(GetKeyBindingListAll(codeBindings, scanBindings))

\* a store of both keyspaces, without enter -> chat, whose index values are
\* not 1, 2, has been saved and replayed
C12_Witness ==
  /\ last.op = "KeyloadSaved"
  /\ Len(files[SavedFilename]) = 4
  /\ codeBindings # EmptyMap /\ scanBindings # EmptyMap
  /\ GetKeyBindingListAll(last.args[3].code, last.args[3].scan)
       # GetKeyBindingListAll(codeBindings, scanBindings)

(***************************************************************************)
(* C13                                                                     *)
(***************************************************************************)
LinesOf(list) == [i \in 1..Len(list) |-> list[i].action.line]

\* C13: the list returned by GetKeyBindingList(kc, sc) holds no action line
\* twice, whatever the store and the live input, also when one binding of the
\* line has exact modifiers and the other the wildcard modifier of the key.
C13_NoLineTwiceInResolution ==
  ResolvedNow =>
    \A i, j \in 1..Len(last.out) :
      i # j => last.out[i].action.line # last.out[j].action.line

(***************************************************************************)
(* C14                                                                     *)
(***************************************************************************)
\* the chord of the live input in the keyspace of keyset ks
LiveChord(live, ks) == IF IsKeyCode(ks) THEN Back(live.kc).ks ELSE Back(live.sc).ks

\* nothing is bound but a -> attack and Shift+a -> attack queued
OnlyAttackAndQueued ==
  /\ scanBindings = EmptyMap
  /\ Cardinality(AllStored) = 2
  /\ \E b \in AllStored : b.boundWith = TextA /\ b.action.line = <<"attack">>
  /\ \E b \in AllStored : b.boundWith = TextShiftA
                            /\ b.action.line = <<"attack", "queued">>

\* C14: a returned binding whose trigger chord has exact modifiers has the
\* modifiers of the live chord; with only a -> attack and Shift+a -> attack
\* queued bound, key a with no modifier resolves to attack alone and with
\* Shift held to attack queued alone.
C14_ExactModifiersMatchExactly ==
  ResolvedNow =>
    /\ \A i \in 1..Len(last.out) :
         ~AnyMod(Trigger(last.out[i])) =>
           Trigger(last.out[i]).mod = LiveChord(last.args, Trigger(last.out[i])).mod
    /\ (OnlyAttackAndQueued /\ last.args = Live(KeyA, {}, <<0>>)) =>
         LinesOf(last.out) = << <<"attack">> >>
    /\ (OnlyAttackAndQueued /\ last.args = Live(KeyA, {"Shift"}, <<0>>)) =>
         LinesOf(last.out) = << <<"attack", "queued">> >>

\* key a was resolved with Shift held while only the two bindings were there
C14_Witness ==
  /\ ResolvedNow
  /\ OnlyAttackAndQueued
  /\ last.args = Live(KeyA, {"Shift"}, <<0>>)
  /\ Len(last.out) = 1

(***************************************************************************)
(* C15                                                                     *)
(***************************************************************************)
\* the single-chord bindings with the wildcard modifier on the key of the live
\* chord
WildcardOnLiveKey(live) ==
  {b \in AllStored :
     /\ Len(b.keyChain) = 1
     /\ AnyMod(Trigger(b))
     /\ Trigger(b).key = LiveChord(live, Trigger(b)).key}

\* C15: resolving one chord returns the line of every single-chord wildcard
\* binding of its key, whatever modifiers are held.
C15_WildcardMatchesAnyModifiers ==
  (ResolvedNow /\ Len(last.args.kc) = 1) =>
    \A b \in WildcardOnLiveKey(last.args) :
      \E i \in 1..Len(last.out) : last.out[i].action.line = b.action.line

\* key a was resolved with Ctrl, Alt and Meta held and Any+a -> attack came out
C15_Witness ==
  /\ ResolvedNow
  /\ last.args = Live(KeyA, {"Alt", "Ctrl", "Meta"}, <<0>>)
  /\ \E b \in WildcardOnLiveKey(last.args) : b.boundWith = TextAnyA
  /\ \E i \in 1..Len(last.out) : last.out[i].boundWith = TextAnyA

(***************************************************************************)
(* C16                                                                     *)
(***************************************************************************)
\* the stored bindings on the chain a,a
ChainBindings == {b \in AllStored : b.boundWith = TextAA}

\* the live chain is a, a with no modifiers, dt apart
LiveAA(dt) == last.args = Live(KeyA, {}, <<0, dt>>)

\* the live chain is a, a with no modifiers, this far apart
LiveAAWithin(from, to) ==
  /\ Len(last.args.kc) = 2
  /\ LiveAA(last.args.kc[2].t)
  /\ last.args.kc[2].t \in from..to

\* C16: the action of a binding on the chain a,a is returned for the live
\* chain a, a when the two chords are no more than the timeout apart (by the
\* binding itself, or by the older binding of the same line that the merge of
\* the keyspaces keeps in its place); the binding is not returned when the
\* chords are further apart or when the live chain is the chord a alone, and
\* then the result is empty when nothing else is bound.
C16_ChainWithinTimeout ==
  ResolvedNow =>
    /\ (Len(last.args.kc) = 2 /\ LiveAAWithin(0, keyChainTimeout)) =>
         \A b \in ChainBindings :
           \E i \in 1..Len(last.out) : last.out[i].action.line = b.action.line
    /\ (Len(last.args.kc) = 1
          \/ LiveAAWithin(keyChainTimeout + 1, keyChainTimeout + 1001)) =>
         /\ \A i \in 1..Len(last.out) : last.out[i] \notin ChainBindings
         /\ AllStored = ChainBindings => last.out = <<>>

\* the chain a,a was resolved with its chords exactly the timeout apart
C16_Witness ==
  /\ ResolvedNow
  /\ LiveAA(keyChainTimeout)
  /\ ChainBindings # {}
  /\ \E i \in 1..Len(last.out) : last.out[i] \in ChainBindings

\* the chain a,a, bound alone, was resolved with its chords too far apart
C16_WitnessExpired ==
  /\ ResolvedNow
  /\ LiveAA(keyChainTimeout + 1)
  /\ ChainBindings # {}
  /\ AllStored = ChainBindings
  /\ last.out = <<>>

\* the timeout was set to 1000 ms: the chain a,a was resolved with its chords
\* 751 ms apart and its binding returned
C16_WitnessReloaded ==
  /\ ResolvedNow
  /\ keyChainTimeout = 1000
  /\ LiveAA(751)
  /\ ChainBindings # {}
  /\ \E i \in 1..Len(last.out) : last.out[i] \in ChainBindings

\* the timeout was set to 100 ms: the chain a,a, bound alone, was resolved
\* with its chords 750 ms apart and nothing returned
C16_WitnessReloadedExpired ==
  /\ ResolvedNow
  /\ keyChainTimeout = 100
  /\ LiveAA(750)
  /\ ChainBindings # {}
  /\ AllStored = ChainBindings
  /\ last.out = <<>>

(***************************************************************************)
(* C17                                                                     *)
(***************************************************************************)
\* the store of the keyspace of keyset ks
StoreOf(ks, code, scan) == IF IsKeyCode(ks) THEN code ELSE scan

\* the store of the other keyspace
OtherStoreOf(ks, code, scan) == IF IsKeyCode(ks) THEN scan ELSE code

\* the two maps agree on every keyset but ks
SameButAt(ks, b1, b2) ==
  /\ DOMAIN b1 \ {ks} = DOMAIN b2 \ {ks}
  /\ \A k \in DOMAIN b1 \ {ks} : b1[k] = b2[k]

\* the entries of a list whose command is not the given text
Without(list, command) == SelectSeq(list, LAMBDA b : <<b.action.command>> # command)

NothingChanges ==
  /\ codeBindings' = codeBindings
  /\ scanBindings' = scanBindings
  /\ bindingsCount' = bindingsCount
  /\ hotkeys' = hotkeys

\* C17: unbind <shortcut> <command> takes every binding of that command out of
\* the list of the parsed keyset and leaves every other list of both stores
\* and the index counter as they were; when the shortcut does not parse or
\* its keyset has no list, UnBind returns false and nothing changes.
C17_UnBindOneKeysetOnly ==
  [][(last = Idle /\ last'.op = "ExecuteCommand" /\ StringToLower(last'.args[1]) = "unbind") =>
       LET p == ParseWholeAsKeySet(keysyms, last'.args[2])
       IN IF ~p.ok \/ p.ks \notin DOMAIN StoreOf(p.ks, codeBindings, scanBindings)
          THEN ~last'.inner /\ NothingChanges
          ELSE LET old  == StoreOf(p.ks, codeBindings, scanBindings)
                   new  == StoreOf(p.ks, codeBindings', scanBindings')
                   kept == Without(old[p.ks], last'.args[3])
               IN /\ bindingsCount' = bindingsCount
                  /\ OtherStoreOf(p.ks, codeBindings', scanBindings')
                       = OtherStoreOf(p.ks, codeBindings, scanBindings)
                  /\ SameButAt(p.ks, old, new)
                  /\ IF kept = <<>> THEN p.ks \notin DOMAIN new
                     ELSE p.ks \in DOMAIN new /\ new[p.ks] = kept
                  /\ last'.inner = (kept # old[p.ks])]_vars

\* unbind Any+a attack has taken attack from the list of Any+a, which keeps
\* another binding, while attack stays bound under another keyset
C17_Witness ==
  /\ last.op = "ExecuteCommand"
  /\ last.args = <<"unbind", TextAnyA, <<"attack">>>>
  /\ last.inner
  /\ ParseKeySet(keysyms, TextAnyA[1]).ks \in DOMAIN codeBindings
  /\ \E b \in AllStored : b.action.command = "attack"
                            /\ Trigger(b) # ParseKeySet(keysyms, TextAnyA[1]).ks

\* unbind a attack has taken the two bindings of attack, one of them with
\* extra text, from the list of a, and attack stays bound under another keyset
C17_WitnessTwoRemoved ==
  /\ last.op = "ExecuteCommand"
  /\ last.args = <<"unbind", TextA, <<"attack">>>>
  /\ last.inner
  /\ bindingsCount = 3
  /\ Cardinality(AllStored) = 1
  /\ \E b \in AllStored : b.action.command = "attack" /\ b.bindingIndex = 3

(***************************************************************************)
(* C18                                                                     *)
(***************************************************************************)
\* C18: unbindkeyset <shortcut> drops the list of the parsed keyset and no
\* other list: not the list of the wildcard keyset of the key when the exact
\* keyset is named, nor the reverse; when the shortcut does not parse or the
\* keyset has no list, UnBindKeyset returns false and nothing changes.
C18_UnBindKeysetExactOnly ==
  [][(last = Idle /\ last'.op = "ExecuteCommand" /\ StringToLower(last'.args[1]) = "unbindkeyset") =>
       LET p == ParseWholeAsKeySet(keysyms, last'.args[2])
       IN IF ~p.ok \/ p.ks \notin DOMAIN StoreOf(p.ks, codeBindings, scanBindings)
          THEN ~last'.inner /\ NothingChanges
          ELSE LET old == StoreOf(p.ks, codeBindings, scanBindings)
                   new == StoreOf(p.ks, codeBindings', scanBindings')
               IN /\ last'.inner
                  /\ bindingsCount' = bindingsCount
                  /\ OtherStoreOf(p.ks, codeBindings', scanBindings')
                       = OtherStoreOf(p.ks, codeBindings, scanBindings)
                  /\ SameButAt(p.ks, old, new)
                  /\ p.ks \notin DOMAIN new]_vars

\* unbindkeyset a has dropped the list of a and the list of Any+a is there
C18_Witness ==
  /\ last.op = "ExecuteCommand"
  /\ last.args = <<"unbindkeyset", TextA>>
  /\ last.inner
  /\ ParseKeySet(keysyms, TextA[1]).ks \notin DOMAIN codeBindings
  /\ SetAnyBit(ParseKeySet(keysyms, TextA[1]).ks) \in DOMAIN codeBindings

\* unbindkeyset Any+a has dropped the list of Any+a and the list of a is there
C18_WitnessWildcard ==
  /\ last.op = "ExecuteCommand"
  /\ last.args = <<"unbindkeyset", TextAnyA>>
  /\ last.inner
  /\ ParseKeySet(keysyms, TextA[1]).ks \in DOMAIN codeBindings
  /\ SetAnyBit(ParseKeySet(keysyms, TextA[1]).ks) \notin DOMAIN codeBindings

(***************************************************************************)
(* C19                                                                     *)
(***************************************************************************)
NoFileTwice(stack) == \A i, j \in 1..Len(stack) : i # j => stack[i] # stack[j]

OfKind(log, kind) == {i \in 1..Len(log) : log[i].kind = kind}

\* the Load calls of the log that name a file of the load stack
CyclicLoads(log) ==
  {i \in OfKind(log, "load") : ~NoFileTwice(Append(log[i].stack, log[i].file))}

\* C19: a Load of a file that is on the load stack returns false at once: the
\* next entry of the log is its return, with the same load stack and the same
\* stores, so nothing was pushed, no line was run, nothing was undone.  The
\* load stack never holds a file twice, and every top-level call comes to its
\* end with every Load returned and the load stack empty.
C19_CyclicLoadRejected ==
  last.op \in {"ExecuteCommand", "KeyloadSaved"} =>
    LET log == last.out
    IN /\ \A i \in 1..Len(log) : NoFileTwice(log[i].stack)
       /\ \A i \in CyclicLoads(log) :
            /\ i < Len(log)
            /\ log[i + 1] = [log[i] EXCEPT !.kind = "return"]
       /\ Cardinality(OfKind(log, "load")) = Cardinality(OfKind(log, "return"))
       /\ loadStack = <<>>

\* self.txt was loaded: its Load of itself was refused with the binding of
\* its first line in place, and the line behind the refused Load was run
C19_Witness ==
  /\ last.op = "ExecuteCommand"
  /\ last.args = <<"keyload", "self.txt">>
  /\ \E i \in CyclicLoads(last.out) :
       /\ last.out[i].stack = <<"self.txt">>
       /\ ~last.out[i + 1].ret
       /\ last.out[i].code # EmptyMap
       /\ last.out[i].code = codeBindings
  /\ scanBindings # EmptyMap

\* ping.txt was loaded: the Load of ping.txt from pong.txt was refused
C19_WitnessCycleOfTwo ==
  /\ last.op = "ExecuteCommand"
  /\ last.args = <<"keyload", "ping.txt">>
  /\ \E i \in CyclicLoads(last.out) : last.out[i].stack = <<"ping.txt", "pong.txt">>

(***************************************************************************)
(* C20                                                                     *)
(***************************************************************************)
\* C20: after Kill and then Init both stores, the hotkey index and the load
\* stack are empty and the binding index counter is zero.
C20_KillInitResetsAll ==
  last.op = "Init" =>
    /\ codeBindings = EmptyMap
    /\ scanBindings = EmptyMap
    /\ hotkeys = EmptyMap
    /\ loadStack = <<>>
    /\ bindingsCount = 0

(***************************************************************************)
(* C21                                                                     *)
(***************************************************************************)
\* the entries of a list with a wildcard (any = TRUE) or an exact-modifier
\* (any = FALSE) trigger chord, in the order of the list
Segment(list, any) == SelectSeq(list, LAMBDA b : AnyMod(Trigger(b)) = any)

IncreasingIndex(list) ==
  \A i, j \in 1..Len(list) : i < j => list[i].bindingIndex < list[j].bindingIndex

\* C21: the list GetKeyBindingList(kc, sc) returns is its exact-modifier
\* entries followed by its wildcard entries, and in each of the two segments
\* the entries, of the key-code store and of the scan-code store alike, come
\* in strictly increasing order of global binding index.
C21_SegmentsInIndexOrder ==
  ResolvedNow =>
    /\ last.out = Segment(last.out, FALSE) \o Segment(last.out, TRUE)
    /\ IncreasingIndex(Segment(last.out, FALSE))
    /\ IncreasingIndex(Segment(last.out, TRUE))

\* the exact segment holds a scan-code binding in front of a key-code binding
\* bound later, and a wildcard binding follows
C21_Witness ==
  /\ ResolvedNow
  /\ Len(last.out) = 3
  /\ ~IsKeyCode(Trigger(last.out[1])) /\ ~AnyMod(Trigger(last.out[1]))
  /\ IsKeyCode(Trigger(last.out[2])) /\ ~AnyMod(Trigger(last.out[2]))
  /\ AnyMod(Trigger(last.out[3]))

\* the wildcard segment holds a scan-code binding in front of a key-code
\* binding bound later
C21_WitnessWildcard ==
  /\ ResolvedNow
  /\ \E i, j \in 1..Len(last.out) :
       /\ i < j
       /\ AnyMod(Trigger(last.out[i])) /\ ~IsKeyCode(Trigger(last.out[i]))
       /\ AnyMod(Trigger(last.out[j])) /\ IsKeyCode(Trigger(last.out[j]))

(***************************************************************************)
(* C22                                                                     *)
(***************************************************************************)
\* the live chain of the keyspace of keyset ks
LiveChain(live, ks) == IF IsKeyCode(ks) THEN live.kc ELSE live.sc

\* the stored bindings the live input reaches, each in its own keyspace
Reached(live) == HitBy(codeBindings, live.kc) \cup HitBy(scanBindings, live.sc)

\* the bindings stored under the keyset of a live trigger chord or under its
\* wildcard keyset, fitting or not
UnderLiveKey(live) ==
  HeldUnder(codeBindings, {Back(live.kc).ks, SetAnyBit(Back(live.kc).ks)})
    \cup HeldUnder(scanBindings, {Back(live.sc).ks, SetAnyBit(Back(live.sc).ks)})

\* C22: every binding GetKeyBindingList(kc, sc) returns is stored, in the
\* store of its keyspace, under the keyset of the live trigger chord of that
\* keyspace or under the wildcard keyset of the same key, and fits the live
\* chain of that keyspace; and the action line of every stored binding of
\* which this is true is in the returned list.
C22_ResolutionSoundAndComplete ==
  ResolvedNow =>
    /\ \A i \in 1..Len(last.out) :
         LET b == last.out[i]
         IN b \in HitBy(StoreOf(Trigger(b), codeBindings, scanBindings),
                        LiveChain(last.args, Trigger(b)))
    /\ \A b \in Reached(last.args) :
         \E i \in 1..Len(last.out) : last.out[i].action.line = b.action.line

\* a binding stored under the live key does not fit the live chain and is left
\* out, while another binding of the key is returned
C22_Witness ==
  /\ ResolvedNow
  /\ last.out # <<>>
  /\ \E b \in UnderLiveKey(last.args) :
       /\ b \notin Reached(last.args)
       /\ \A i \in 1..Len(last.out) : last.out[i].action.line # b.action.line

\* a binding that is reached is not returned: its line is there by the older
\* binding of the other keyspace
C22_WitnessDuplicate ==
  /\ ResolvedNow
  /\ \E b \in Reached(last.args) :
       /\ \A i \in 1..Len(last.out) : last.out[i] # b
       /\ \E i \in 1..Len(last.out) :
            /\ last.out[i].action.line = b.action.line
            /\ last.out[i].bindingIndex < b.bindingIndex

(***************************************************************************)
(* C23                                                                     *)
(***************************************************************************)
\* the trigger keyset Bind(keystr, line) stores its binding under
TriggerOfBind(keystr, line) ==
  LET ks == Back(ParseKeyChain(keysyms, keystr).kc)
  IN IF Action(line).command \in statefulCommands THEN SetAnyBit(ks) ELSE ks

\* the list of the trigger keyset of Bind(keystr, line) holds the line
AlreadyBound(code, scan, keystr, line) ==
  /\ ~BindCannotWork(keystr, line)
  /\ LET ks    == TriggerOfBind(keystr, line)
         store == StoreOf(ks, code, scan)
     IN /\ ks \in DOMAIN store
        /\ \E i \in 1..Len(store[ks]) : store[ks][i].action.line = line

\* the observed call is a Bind(keystr, line), made directly or by the bind
\* command
BindCalled(call) ==
  \/ call.op = "Bind"
  \/ call.op = "ExecuteCommand" /\ StringToLower(call.args[1]) = "bind" /\ Len(call.args) = 3

BindArgs(call) == IF call.op = "Bind" THEN call.args ELSE Tail(call.args)

\* C23: a Bind of a line that the list of its trigger keyset already holds
\* returns true and leaves both stores and the index counter as they were,
\* also when the binding in the list has another chain in front of the same
\* trigger chord.
C23_RebindIsNoOp ==
  [][(last = Idle /\ BindCalled(last')
        /\ AlreadyBound(codeBindings, scanBindings, BindArgs(last')[1],
                        BindArgs(last')[2])) =>
       /\ last'.inner
       /\ last'.op = "Bind" => last'.ret
       /\ codeBindings' = codeBindings
       /\ scanBindings' = scanBindings
       /\ bindingsCount' = bindingsCount]_vars

\* Bind a attack was made while the list of a held attack bound with a,a and
\* another binding was stored: two bindings and a counter of two are left
C23_Witness ==
  /\ last.op = "Bind" /\ last.ret
  /\ last.args = <<TextA, <<"attack">>>>
  /\ \E b \in AllStored : b.boundWith = TextAA /\ b.action.line = <<"attack">>
  /\ \A b \in AllStored : b.action.line = <<"attack">> => b.boundWith # TextA
  /\ Cardinality(AllStored) = 2
  /\ bindingsCount = 2

(***************************************************************************)
(* C24                                                                     *)
(***************************************************************************)
IndicesOf(code, scan) == {b.bindingIndex : b \in HeldIn(code) \cup HeldIn(scan)}

\* the stored bindings have pairwise distinct indices between 1 and the
\* counter
IndicesDistinctAndCounted ==
  /\ Cardinality(IndicesOf(codeBindings, scanBindings))
       = TotalHeld(codeBindings) + TotalHeld(scanBindings)
  /\ IndicesOf(codeBindings, scanBindings) \subseteq 1..bindingsCount

\* the observed call runs unbindall: the command itself, keyreload, or the
\* load of a saved file, whose first line it is
RunsUnbindAll(call) ==
  \/ call.op = "ExecuteCommand" /\ StringToLower(call.args[1]) \in {"unbindall", "keyreload"}
  \/ call.op = "KeyloadSaved"

\* C24: in every reachable state the stored bindings have pairwise distinct
\* indices between 1 and the counter; a call that does not run unbindall
\* leaves the counter no lower, and every binding it adds has an index above
\* the counter value of before, so above the index of every binding stored
\* then and of every binding removed since the last unbindall.
C24_IndicesFreshAndNeverReused ==
  /\ []IndicesDistinctAndCounted
  /\ [][(last = Idle /\ last'.op # "none" /\ ~RunsUnbindAll(last')) =>
          /\ bindingsCount' >= bindingsCount
          /\ \A i \in IndicesOf(codeBindings', scanBindings') :
               \/ i \in IndicesOf(codeBindings, scanBindings)
               \/ i > bindingsCount]_vars

\* a binding was added after the bindings with the indices 1 and 2 had been
\* removed: it is the only one stored and its index is 3
C24_Witness ==
  /\ last.op = "ExecuteCommand" /\ StringToLower(last.args[1]) = "bind" /\ last.inner
  /\ Cardinality(AllStored) = 1
  /\ IndicesOf(codeBindings, scanBindings) = {3}
  /\ bindingsCount = 3

(***************************************************************************)
(* C25                                                                     *)
(***************************************************************************)
\* the lists GetKeyBindingList(kc, sc) hands to its first merge: the filtered
\* exact-modifier lists of the two keyspaces
ExactLists(code, scan, kc, sc) ==
  << IF ~AnyMod(Back(kc).ks)
     THEN FilterByKeychain(GetKeyBindingListKS(code, scan, Back(kc).ks, FALSE), kc)
     ELSE <<>>,
     IF ~AnyMod(Back(sc).ks)
     THEN FilterByKeychain(GetKeyBindingListKS(code, scan, Back(sc).ks, FALSE), sc)
     ELSE <<>> >>

\* the lists it hands to its second merge: the filtered wildcard lists
AnyLists(code, scan, kc, sc) ==
  << FilterByKeychain(GetKeyBindingListKS(code, scan, Back(kc).ks, TRUE), kc),
     FilterByKeychain(GetKeyBindingListKS(code, scan, Back(sc).ks, TRUE), sc) >>

\* the lists of the two stores, and the empty list
StoredLists ==
  {<<>>} \cup {codeBindings[k] : k \in DOMAIN codeBindings}
         \cup {scanBindings[k] : k \in DOMAIN scanBindings}

\* C25: MergeActionListsByTrigger with an empty list A or an empty list B
\* gives what out held followed by the other list as it is.  This is so for
\* every pair of a stored list and of an output made of a stored list, and for
\* the two merges of every resolution.
C25_MergeWithEmptyListAppends ==
  /\ \A list \in StoredLists, out \in StoredLists :
       /\ MergeActionListsByTrigger(<<>>, list, out) = out \o list
       /\ MergeActionListsByTrigger(list, <<>>, out) = out \o list
  /\ ResolvedNow =>
       LET e == ExactLists(codeBindings, scanBindings, last.args.kc, last.args.sc)
           w == AnyLists(codeBindings, scanBindings, last.args.kc, last.args.sc)
           merged == MergeActionListsByTrigger(e[1], e[2], <<>>)
       IN /\ e[1] = <<>> => merged = e[2]
          /\ e[2] = <<>> => merged = e[1]
          /\ w[1] = <<>> => last.out = merged \o w[2]
          /\ w[2] = <<>> => last.out = merged \o w[1]

\* a resolution whose first merge had an empty list A and a list B of one
\* binding, and whose second merge had an empty list B behind a filled output
C25_Witness ==
  /\ ResolvedNow
  /\ LET e == ExactLists(codeBindings, scanBindings, last.args.kc, last.args.sc)
         w == AnyLists(codeBindings, scanBindings, last.args.kc, last.args.sc)
     IN /\ e[1] = <<>> /\ e[2] # <<>>
        /\ w[1] # <<>> /\ w[2] = <<>>
        /\ Len(last.out) = Len(e[2]) + Len(w[1])

\* a resolution whose merges had an empty list B, then an empty list A, with
\* two bindings in one of the lists
C25_WitnessOtherSide ==
  /\ ResolvedNow
  /\ LET e == ExactLists(codeBindings, scanBindings, last.args.kc, last.args.sc)
         w == AnyLists(codeBindings, scanBindings, last.args.kc, last.args.sc)
     IN /\ Len(e[1]) = 2 /\ e[2] = <<>>
        /\ w[1] = <<>> /\ w[2] # <<>>
        /\ Len(last.out) = 3

(***************************************************************************)
(* C26                                                                     *)
(***************************************************************************)
NoEmptyList(bindings) == \A k \in DOMAIN bindings : bindings[k] # <<>>

\* C26: no keyset of the key-code store or of the scan-code store maps to an
\* empty list, whatever binds, unbinds, unbindkeysets, unbindactions and
\* unbindalls were made: a keyset that loses its last binding is erased.
C26_NoEmptyListInStore == NoEmptyList(codeBindings) /\ NoEmptyList(scanBindings)

\* unbind has taken the last binding of its keyset, the keyset is gone and
\* other keysets are there
C26_Witness ==
  /\ last.op = "ExecuteCommand" /\ StringToLower(last.args[1]) = "unbind" /\ last.inner
  /\ LET ks == ParseWholeAsKeySet(keysyms, last.args[2]).ks
     IN ks \notin DOMAIN StoreOf(ks, codeBindings, scanBindings)
  /\ AllStored # {}

\* unbindaction has taken the last bindings of two keysets of the key-code
\* store, and one keyset is left there
C26_WitnessUnbindAction ==
  /\ last.op = "ExecuteCommand" /\ last.args = <<"unbindaction", <<"attack">>>>
  /\ last.inner
  /\ bindingsCount = 3
  /\ Cardinality(DOMAIN codeBindings) = 1
  /\ scanBindings = EmptyMap

(***************************************************************************)
(* C27                                                                     *)
(***************************************************************************)
\* every list of the store is in strictly increasing index order and every
\* binding of the list of a keyset has that keyset as its trigger chord
ListsSortedUnderTrigger(bindings) ==
  \A k \in DOMAIN bindings :
    /\ IncreasingIndex(bindings[k])
    /\ \A i \in 1..Len(bindings[k]) : Trigger(bindings[k][i]) = k

\* C27: in every reachable state the list of each keyset is in strictly
\* increasing order of global binding index, each of its bindings has the
\* keyset as the last chord of its chain, and the keysets of the key-code
\* store are key codes, those of the scan-code store scan codes; removals and
\* the counter reset of unbindall keep this.
C27_ListsSortedUnderTheirTrigger ==
  /\ ListsSortedUnderTrigger(codeBindings)
  /\ ListsSortedUnderTrigger(scanBindings)
  /\ \A k \in DOMAIN codeBindings : IsKeyCode(k)
  /\ \A k \in DOMAIN scanBindings : ~IsKeyCode(k)

\* after unbindall, which left enter -> chat with index 1, two bindings were
\* added to one list, one of them behind a chain
C27_Witness ==
  /\ last.op = "ExecuteCommand" /\ StringToLower(last.args[1]) = "bind" /\ last.inner
  /\ \E b \in AllStored : b.boundWith = TextEnterChat[1] /\ b.bindingIndex = 1
  /\ \E k \in DOMAIN codeBindings :
       /\ Len(codeBindings[k]) = 2
       /\ Len(codeBindings[k][1].keyChain) # Len(codeBindings[k][2].keyChain)
  /\ bindingsCount = 3

\* unbind has taken the older of the two bindings of a list
C27_WitnessRemoval ==
  /\ last.op = "ExecuteCommand" /\ last.inner
  /\ last.args = <<"unbind", TextAnyA, <<"attack">>>>
  /\ \E k \in DOMAIN codeBindings :
       /\ AnyMod(k)
       /\ Len(codeBindings[k]) = 1
       /\ codeBindings[k][1].bindingIndex >= 2

(***************************************************************************)
(* C28                                                                     *)
(***************************************************************************)
LookupOps == {"GetKeyBindingList", "GetKeyBindingListAgain", "GetKeyBindingListKC",
              "GetKeyBindingListAll", "GetHotkeys"}

\* the list of a lookup holds fewer bindings than the live input reaches
DuplicateLeftOut(call) ==
  \E b \in HitBy(codeBindings, call.args.kc) \cup HitBy(scanBindings, call.args.sc) :
    \A i \in 1..Len(call.out) : call.out[i] # b

C28_WitnessOneChain ==
  /\ last.op = "GetKeyBindingListKC"
  /\ Len(last.out) = 2
  /\ ~AnyMod(Trigger(last.out[1])) /\ AnyMod(Trigger(last.out[2]))
  /\ DOMAIN hotkeys # {}

(***************************************************************************)
(* C29                                                                     *)
(***************************************************************************)
\* the entries of the log at which Load or LoadDefaults is entered
Entries(log) == {i \in 1..Len(log) : log[i].kind \in {"load", "defaults"}}

\* calls entered and not yet left among the entries i..j of the log
OpenCalls(log, i, j) ==
  Cardinality({k \in i..j : log[k].kind \in {"load", "defaults"}})
    - Cardinality({k \in i..j : log[k].kind \in {"return", "defaultsReturn"}})

\* the entries behind i at which the call entered at i is left
ReturnsOf(log, i) ==
  {j \in (i + 1)..Len(log) :
     /\ OpenCalls(log, i, j) = 0
     /\ \A k \in i..(j - 1) : OpenCalls(log, i, k) > 0}

\* C29: every Load comes back, rejected or done, with whatever keyload and
\* keyreload lines in its file, with the load stack and the rebuild flag it
\* was entered with; every LoadDefaults comes back with the rebuild flag it
\* was entered with.
C29_LoadRestoresStackAndFlag ==
  last.op \in {"ExecuteCommand", "KeyloadSaved"} =>
    LET log == last.out
    IN \A i \in Entries(log) :
         /\ ReturnsOf(log, i) # {}
         /\ \A j \in ReturnsOf(log, i) :
              /\ log[j].file = log[i].file
              /\ log[j].build = log[i].build
              /\ IF log[i].kind = "load"
                 THEN log[j].kind = "return" /\ log[j].stack = log[i].stack
                 ELSE log[j].kind = "defaultsReturn"

\* ping.txt was loaded: the Load of pong.txt, entered with ping.txt on the
\* stack and the flag off, has run the refused Load of ping.txt and a bind,
\* and has come back with the same stack and the flag off
C29_Witness ==
  /\ last.op = "ExecuteCommand"
  /\ last.args = <<"keyload", "ping.txt">>
  /\ \E i \in Entries(last.out) :
       /\ last.out[i].file = "pong.txt"
       /\ last.out[i].stack = <<"ping.txt">>
       /\ ~last.out[i].build
       /\ \E j \in ReturnsOf(last.out, i) :
            /\ j > i + 3
            /\ last.out[j].ret
            /\ last.out[j].code # last.out[i].code
  /\ buildHotkeyMap

\* defs.txt was loaded: LoadDefaults was entered with the flag off and has
\* left it off
C29_WitnessDefaultsInFile ==
  /\ last.op = "ExecuteCommand"
  /\ last.args = <<"keyload", "defs.txt">>
  /\ \E i \in Entries(last.out) :
       /\ last.out[i].kind = "defaults"
       /\ last.out[i].stack = <<"defs.txt">>
       /\ ~last.out[i].build
       /\ \E j \in ReturnsOf(last.out, i) : last.out[j].code # last.out[i].code

\* keydefaults was run from the top: LoadDefaults was entered with the flag on
\* and has put it back on
C29_WitnessDefaultsOnTop ==
  /\ last.op = "ExecuteCommand"
  /\ last.args = <<"keydefaults">>
  /\ \E i \in Entries(last.out) :
       /\ last.out[i].kind = "defaults"
       /\ last.out[i].build
       /\ \E j \in ReturnsOf(last.out, i) : last.out[j].build

====
